---- MODULE Spec2Model ----
(***************************************************************************)
(* State-machine model of the IoT simulation core:                         *)
(*   - SimulationEngine (src/src/simulation/SimulationEngine.cpp): the     *)
(*     STOPPED/RUNNING/PAUSED state machine, the event priority queue and  *)
(*     the scheduler thread (runSimulation / processEvents);               *)
(*   - NetworkManager (src/src/network/NetworkManager.cpp): sendMessage,   *)
(*     the delivery worker (processMessages / deliverMessage), start/stop, *)
(*     broadcastMessage and setNetworkConditions;                          *)
(*   - DeviceManager (src/unnamed/part_004): the registry and its          *)
(*     broadcast;                                                          *)
(*   - MeshNetwork (src/unnamed/part_000): the topology, its hop counts    *)
(*     and shortest paths.                                                 *)
(* Every thread is modelled by a program counter; one action is one        *)
(* atomic step of the code (a region under one lock, or one unlocked       *)
(* statement).                                                             *)
(***************************************************************************)
EXTENDS Integers, Sequences, FiniteSets, TLC

\* ------------------------------------------------------------------ bounds
MaxTime == 3        \* the clock runs over 0..MaxTime
MaxDelay == 1       \* delays / intervals passed to scheduleEvent: 0..MaxDelay
MaxPrio == 1        \* priorities passed to scheduleEvent: 0..MaxPrio
MaxEvents == 3      \* events pushed over one behaviour
NumCtl == 2         \* application threads driving start/stop/pause/resume

MaxMsgs == 3        \* sendMessage calls over one behaviour
NumSenders == 2     \* application threads calling sendMessage

MaxHopCount == 2    \* the largest maxHops a MeshNetwork is built with

\* the delays a callback passes to scheduleEvent: negative, zero, positive
CallbackDelays == (0 - 1)..1
Delays == 0..MaxDelay
Intervals == 1..(MaxDelay + 1)
Prios == 0..MaxPrio
Ctl == 1..NumCtl
\* what a user callback does when invoked: returns, throws a std::exception,
\* or throws something that is not a std::exception
Callbacks == {"ok", "throwStd", "throwOther"}

Senders == 1..NumSenders
\* the devices registered before the network manager is used: the ids for
\* which deviceExists() is true
Devices == {"dev"}
\* the ids of the devices registered and unregistered while broadcasts run,
\* in the order std::map iterates them
DeviceOrder == <<"d1", "d2", "d3">>
DeviceIds == {DeviceOrder[i] : i \in 1..Len(DeviceOrder)}
\* the declared source of a broadcast: a registered id or an outside one
Sources == DeviceIds \cup {"ext"}
MaxSent == 6        \* messagesSent never counts beyond this in a broadcast
MaxDelayArg == 4    \* the largest delay passed to setNetworkConditions
MaxCeiling == 4     \* the largest hop ceiling an update is followed under
HopFuel == 12       \* turns of the update's loop that are followed
\* a double that is not a number: every comparison with it is false
NaN == 0 - 999
\* the arguments of setNetworkConditions: loss rates in percent from -50 to
\* 150, delays from -1 to MaxDelayArg, and not-a-number
LossArgs == {10 * i - 50 : i \in 0..20} \cup {NaN}
DelayArgs == (0 - 1)..MaxDelayArg \cup {NaN}
\* packet loss rates and uniform draws from [0,1), both in percent
LossRates == {0, 50, 100}
Draws == {0, 99}

\* the device ids passed to MeshNetwork
MeshIds == {"G", "A", "B"}

NoEvent == [seq |-> 0]
NoMsg == [id |-> 0]
\* a value-initialized MeshNode, as std::map::operator[] inserts it
NoNode == [neighbors |-> <<>>, hopCountToGateway |-> 0, isGateway |-> FALSE]
NoNodes == [x \in {} |-> NoNode]
NoOp == [op |-> "none"]
NoBroadcast == [source |-> "", registered |-> {}, invoked |-> <<>>,
                failed |-> {}, outcome |-> "none"]

VARIABLES
    \* ---- SimulationEngine fields
    currentState,          \* State: "STOPPED" | "RUNNING" | "PAUSED"
    running,               \* bool running
    currentTime,           \* time_point currentTime
    eventQueue,            \* the priority queue, as the set of its events
    totalEventsProcessed,  \* size_t totalEventsProcessed
    simulationThread,      \* std::thread handle: "none" | "live" | "finished"
    stateMutex,            \* owner of stateMutex: "free" | "sched"
    eventMutex,            \* owner of eventMutex: "free" | "sched"
    \* ---- the scheduler thread (runSimulation / processEvents)
    spc,                   \* its position
    peNow,                 \* processEvents' local `now`
    curEvent,              \* processEvents' local `event`
    \* ---- application threads inside SimulationEngine::stop()
    cpc,                   \* per thread: "idle" | "stop_join" | "stop_nm"
    \* ---- environment
    now,                   \* steady_clock::now()
    nextSeq,               \* number of events pushed so far
    crashed,               \* std::terminate was called
    chainStarted,          \* scheduleRepeatingEvent has been called
    \* ---- history (observations of the run, never read by the program)
    fireCount,             \* per event: how often its callback was invoked
    cbInvoked,             \* invocations of the repeating event's user callback
    stopReturned,          \* threads whose stop() returned since the last start
    pausedAt,              \* the clock when pause() last took effect
    overdue,               \* events already due when resume() last took effect
    passesSinceResume,     \* drain passes begun since the last resume()
    spawnedInPass,         \* events a callback scheduled in this drain pass
    \* ---- NetworkManager fields
    hasNM,                 \* the engine's networkManager pointer is not null
    nmRunning,             \* bool running
    messageQueue,          \* std::queue<Message>
    queueMutex,            \* owner of queueMutex: "free" | "worker"
    processingThread,      \* std::thread handle: "none" | "live" | "finished"
    stats,                 \* NetworkStats counters
    packetLossRate,        \* in percent
    \* ---- the delivery worker (processMessages)
    wpc,                   \* its position
    wMsg,                  \* its local `message`
    wDropped,              \* the messages it discarded at shutdown
    \* ---- application threads inside sendMessage
    sndPc,                 \* per sender: "idle" | "push" | "notify" | "count"
    sndMsg,                \* per sender: the message being sent
    nextMsg,               \* number of sendMessage calls so far
    \* ---- history of the network manager
    fate,                  \* per message: the counters it was counted in
    handed,                \* messages passed to sendMessageToDevice
    atStop,                \* messages queued when stop() cleared `running`
    returnedTrue,          \* messages whose sendMessage returned true
    \* ---- MeshNetwork fields
    nodes,                 \* std::map<std::string, MeshNode>
    gatewayId,             \* std::string gatewayId ("" when none)
    maxHops,               \* int maxHops
    \* ---- the last MeshNetwork call and what it returned
    lastOp,
    \* ---- DeviceManager fields
    devices,               \* std::map<std::string, std::shared_ptr<IoTDevice>>
                           \* devices, as the set of its keys
    \* ---- the last broadcastMessage call and how it went
    broadcast,
    \* ---- NetworkManager fields (network conditions)
    networkDelayMin,       \* double networkDelayMin
    networkDelayMax        \* double networkDelayMax

engineVars == <<currentState, running, currentTime, eventQueue,
                totalEventsProcessed, simulationThread, stateMutex, eventMutex,
                spc, peNow, curEvent, cpc, now, nextSeq, crashed, chainStarted>>
histVars == <<fireCount, cbInvoked, stopReturned, pausedAt, overdue,
             passesSinceResume, spawnedInPass>>
histVars_but_spawned == <<fireCount, cbInvoked, stopReturned, pausedAt,
                         overdue, passesSinceResume>>
engineVars_but_cpc == <<currentState, running, currentTime, eventQueue,
                        totalEventsProcessed, simulationThread, stateMutex,
                        eventMutex, spc, peNow, curEvent, now, nextSeq, crashed,
                        chainStarted>>
netVars == <<hasNM, nmRunning, messageQueue, queueMutex, processingThread,
             stats, packetLossRate, wpc, wMsg, wDropped, sndPc, sndMsg,
             nextMsg, fate, handed, atStop, returnedTrue>>
meshVars == <<nodes, gatewayId, maxHops, lastOp>>
dmVars == <<devices, broadcast>>
delayVars == <<networkDelayMin, networkDelayMax>>
vars == <<engineVars, histVars, netVars, meshVars, dmVars, delayVars>>

\* ------------------------------------------------------------ pure helpers

\* operator> with the tie-break inverted (lower priority first)
GreaterThanLowFirst(a, b) ==
    IF a.time = b.time THEN a.prio > b.prio ELSE a.time > b.time

\* SimulationEvent::operator> : a is "greater" (fires later) than b
GreaterThan(a, b) ==
    IF a.time = b.time THEN a.prio < b.prio ELSE a.time > b.time

\* std::priority_queue<..., std::greater<>>::top(): an element that is not
\* greater than any other; among equivalent elements the heap may give any.
IsTop(e, q) == e \in q /\ \A o \in q : ~GreaterThan(e, o)

\* eventId.empty() ? "EVENT_" + to_string(totalEventsProcessed) : eventId
AutoId(prefix) == <<prefix, totalEventsProcessed>>

\* the SimulationEvent built by scheduleEvent(delay, callback, id, priority);
\* the callback is the triple (kind, cb, interval):
\*   kind "user"   : the application's callback cb
\*   kind "repeat" : scheduleRepeatingEvent's repeatingCallback (cb, interval captured)
\*   kind "tramp"  : the inner lambda that calls scheduleRepeatingEvent again
NewEvent(delay, prio, id, kind, cb, interval) ==
    [seq |-> nextSeq + 1, time |-> now + delay, prio |-> prio, id |-> id,
     kind |-> kind, cb |-> cb, interval |-> interval]

\* eventQueue.push(event) under eventMutex (scheduleEvent, lines 112-115)
PushEvent(e) ==
    /\ eventMutex = "free"
    /\ nextSeq < MaxEvents
    /\ eventQueue' = eventQueue \cup {e}
    /\ nextSeq' = nextSeq + 1

\* a pop that also discards the events due at the same time as the top
PopTopSameTime(q, e) == {x \in q : x.time # e.time}

\* eventQueue.pop() after `event = eventQueue.top()` (lines 258-259)
PopTop(q, e) == q \ {e}

Chain(q) == {e \in q : e.kind \in {"repeat", "tramp"}}

\* -------------------------------------------------------------------- Init
InitEngine ==
    /\ currentState = "STOPPED"
    /\ running = FALSE
    /\ currentTime = 0
    /\ eventQueue = {}
    /\ totalEventsProcessed = 0
    /\ simulationThread = "none"
    /\ stateMutex = "free"
    /\ eventMutex = "free"
    /\ spc = "none"
    /\ peNow = 0
    /\ curEvent = NoEvent
    /\ cpc = [c \in Ctl |-> "idle"]
    /\ now = 0
    /\ nextSeq = 0
    /\ crashed = FALSE
    /\ chainStarted = FALSE
    /\ fireCount = [i \in 1..MaxEvents |-> 0]
    /\ cbInvoked = 0
    /\ stopReturned = {}
    /\ pausedAt = 0
    /\ overdue = {}
    /\ passesSinceResume = 0
    /\ spawnedInPass = {}

\* NetworkManager::NetworkManager, lines 12-25
InitNet ==
    /\ nmRunning = FALSE
    /\ messageQueue = <<>>
    /\ queueMutex = "free"
    /\ processingThread = "none"
    /\ stats = [messagesSent |-> 0, messagesReceived |-> 0,
                messagesDropped |-> 0, errors |-> 0]
    /\ wpc = "none"
    /\ wMsg = NoMsg
    /\ wDropped = <<>>
    /\ sndPc = [s \in Senders |-> "idle"]
    /\ sndMsg = [s \in Senders |-> NoMsg]
    /\ nextMsg = 0
    /\ fate = [i \in 1..MaxMsgs |-> <<>>]
    /\ handed = {}
    /\ atStop = {}
    /\ returnedTrue = {}

\* the registry as the application filled it before using the manager, and
\* no broadcast made yet
InitDevices ==
    /\ devices = Devices
    /\ broadcast = NoBroadcast

\* NetworkManager::NetworkManager, lines 17-18
InitConditions ==
    /\ networkDelayMin = 0
    /\ networkDelayMax = 0

\* MeshNetwork::MeshNetwork, lines 8-11, and no call made yet
InitMesh ==
    /\ nodes = NoNodes
    /\ gatewayId = ""
    /\ lastOp = NoOp

\* an engine built without a network manager (every use of the pointer is
\* guarded by `if (networkManager)`)
Init ==
    /\ InitEngine /\ InitNet /\ hasNM = FALSE /\ packetLossRate = 0
    /\ InitDevices /\ InitConditions
    /\ InitMesh /\ maxHops = MaxHopCount

\* ------------------------------------------------------------ NetworkManager

\* a loss simulation whose comparison is inverted
SimulateNetworkConditionsInverted(r) ==
    ~(packetLossRate > 0 /\ r > packetLossRate)

\* simulateNetworkConditions(), lines 184-193, for the draw r of
\* failureDistribution(rng): TRUE when the message passes
SimulateNetworkConditions(r) == ~(packetLossRate > 0 /\ r < packetLossRate)

\* queueCondition.notify_one() / notify_all(): a worker blocked in wait() is
\* made runnable; a worker that is not blocked does not see the notification
Notified(w) == IF w = "blocked" THEN "woken" ELSE w

\* the predicate of queueCondition.wait, line 149
WaitPredicate == messageQueue # <<>> \/ ~nmRunning

Ids(q) == {q[i].id : i \in 1..Len(q)}

nmOther == <<hasNM, messageQueue, queueMutex, stats, packetLossRate, wMsg,
             wDropped, sndPc, sndMsg, nextMsg, fate, handed, returnedTrue>>

\* the body of NetworkManager::start(), lines 31-37; assigning a new thread
\* to a processingThread that is still joinable calls std::terminate
NMStartTerminates == ~nmRunning /\ processingThread # "none"
\* start() without the test of line 32: a running manager gets a new worker
NMStartBodyUnguarded ==
    /\ IF NMStartTerminates
       THEN UNCHANGED <<processingThread, wpc>>
       ELSE processingThread' = "live" /\ wpc' = "lock"
    /\ nmRunning' = TRUE
    /\ UNCHANGED <<nmOther, atStop>>
    /\ UNCHANGED <<meshVars, dmVars, delayVars>>

NMStartBody ==
    /\ IF nmRunning \/ NMStartTerminates
       THEN UNCHANGED <<processingThread, wpc>>
       ELSE processingThread' = "live" /\ wpc' = "lock"
    /\ nmRunning' = TRUE
    /\ UNCHANGED <<nmOther, atStop>>
    /\ UNCHANGED <<meshVars, dmVars, delayVars>>

\* NetworkManager::stop(), lines 40-43: test and clear `running`, notify_all
NMStopBody ==
    /\ IF nmRunning
       THEN /\ nmRunning' = FALSE
            /\ wpc' = Notified(wpc)
            /\ atStop' = Ids(messageQueue)
       ELSE UNCHANGED <<nmRunning, wpc, atStop>>
    /\ UNCHANGED <<nmOther, processingThread>>
    /\ UNCHANGED <<meshVars, dmVars, delayVars>>

\* NetworkManager::stop(), lines 45-47: if (joinable()) join()
NMJoinBody ==
    /\ processingThread # "live"
    /\ processingThread' = "none"
    /\ UNCHANGED <<nmOther, nmRunning, wpc, atStop>>
    /\ UNCHANGED <<meshVars, dmVars, delayVars>>

\* start() called by an application thread
NMStart(c) ==
    /\ ~crashed /\ cpc[c] = "idle"
    /\ NMStartBody
    /\ crashed' = NMStartTerminates
    /\ UNCHANGED <<currentState, running, currentTime, eventQueue,
                   totalEventsProcessed, simulationThread, stateMutex,
                   eventMutex, spc, peNow, curEvent, cpc, now, nextSeq,
                   chainStarted, histVars>>
    /\ UNCHANGED <<meshVars, dmVars, delayVars>>

\* stop() called by an application thread, up to the notify_all
NMStopBegin(c) ==
    /\ ~crashed /\ cpc[c] = "idle"
    /\ NMStopBody
    /\ cpc' = [cpc EXCEPT ![c] = IF nmRunning THEN "nm_join" ELSE "idle"]
    /\ UNCHANGED <<engineVars_but_cpc, histVars>>
    /\ UNCHANGED <<meshVars, dmVars, delayVars>>

\* stop() called by an application thread: the join, and the return
NMStopJoin(c) ==
    /\ ~crashed /\ cpc[c] = "nm_join"
    /\ NMJoinBody
    /\ cpc' = [cpc EXCEPT ![c] = "idle"]
    /\ UNCHANGED <<engineVars_but_cpc, histVars>>
    /\ UNCHANGED <<meshVars, dmVars, delayVars>>

\* a sendMessage that counts the message as sent before the loss simulation
SendMessageBeginCountsFirst(s, dst, r) ==
    /\ ~crashed /\ sndPc[s] = "idle" /\ nextMsg < MaxMsgs
    /\ nextMsg' = nextMsg + 1
    /\ IF SimulateNetworkConditions(r)
       THEN /\ sndPc' = [sndPc EXCEPT ![s] = "push"]
            /\ sndMsg' = [sndMsg EXCEPT ![s] = [id |-> nextMsg + 1, dst |-> dst]]
            /\ UNCHANGED stats
       ELSE /\ stats' = [stats EXCEPT !.messagesDropped = @ + 1,
                                      !.messagesSent = @ + 1]
            /\ UNCHANGED <<sndPc, sndMsg>>
    /\ UNCHANGED <<hasNM, nmRunning, messageQueue, queueMutex,
                   processingThread, packetLossRate, wpc, wMsg, wDropped,
                   fate, handed, atStop, returnedTrue>>
    /\ UNCHANGED <<engineVars, histVars>>
    /\ UNCHANGED <<meshVars, dmVars, delayVars>>

\* sendMessage(message), lines 52-58: the loss simulation; a lost message is
\* counted as dropped and the call returns false
SendMessageBegin(s, dst, r) ==
    /\ ~crashed /\ sndPc[s] = "idle" /\ nextMsg < MaxMsgs
    /\ nextMsg' = nextMsg + 1
    /\ IF SimulateNetworkConditions(r)
       THEN /\ sndPc' = [sndPc EXCEPT ![s] = "push"]
            /\ sndMsg' = [sndMsg EXCEPT ![s] = [id |-> nextMsg + 1, dst |-> dst]]
            /\ UNCHANGED stats
       ELSE /\ stats' = [stats EXCEPT !.messagesDropped = @ + 1]
            /\ UNCHANGED <<sndPc, sndMsg>>
    /\ UNCHANGED <<hasNM, nmRunning, messageQueue, queueMutex,
                   processingThread, packetLossRate, wpc, wMsg, wDropped,
                   fate, handed, atStop, returnedTrue>>
    /\ UNCHANGED <<engineVars, histVars>>
    /\ UNCHANGED <<meshVars, dmVars, delayVars>>

\* sendMessage, lines 60-63: push under queueMutex
SendMessagePush(s) ==
    /\ ~crashed /\ sndPc[s] = "push" /\ queueMutex = "free"
    /\ messageQueue' = Append(messageQueue, sndMsg[s])
    /\ sndPc' = [sndPc EXCEPT ![s] = "notify"]
    /\ UNCHANGED <<hasNM, nmRunning, queueMutex, processingThread, stats,
                   packetLossRate, wpc, wMsg, wDropped, sndMsg, nextMsg,
                   fate, handed, atStop, returnedTrue>>
    /\ UNCHANGED <<engineVars, histVars>>
    /\ UNCHANGED <<meshVars, dmVars, delayVars>>

\* a sendMessage that does not signal the worker
SendMessageNotifySkipped(s) ==
    /\ ~crashed /\ sndPc[s] = "notify"
    /\ sndPc' = [sndPc EXCEPT ![s] = "count"]
    /\ UNCHANGED <<hasNM, nmRunning, messageQueue, queueMutex,
                   processingThread, stats, packetLossRate, wpc, wMsg,
                   wDropped, sndMsg, nextMsg, fate, handed, atStop,
                   returnedTrue>>
    /\ UNCHANGED <<engineVars, histVars>>
    /\ UNCHANGED <<meshVars, dmVars, delayVars>>

\* sendMessage, line 65: queueCondition.notify_one()
SendMessageNotify(s) ==
    /\ ~crashed /\ sndPc[s] = "notify"
    /\ wpc' = Notified(wpc)
    /\ sndPc' = [sndPc EXCEPT ![s] = "count"]
    /\ UNCHANGED <<hasNM, nmRunning, messageQueue, queueMutex,
                   processingThread, stats, packetLossRate, wMsg, wDropped,
                   sndMsg, nextMsg, fate, handed, atStop, returnedTrue>>
    /\ UNCHANGED <<engineVars, histVars>>
    /\ UNCHANGED <<meshVars, dmVars, delayVars>>

\* sendMessage, lines 67-72: messagesSent++ and return true
SendMessageCount(s) ==
    /\ ~crashed /\ sndPc[s] = "count"
    /\ stats' = [stats EXCEPT !.messagesSent = @ + 1]
    /\ returnedTrue' = returnedTrue \cup {sndMsg[s].id}
    /\ sndPc' = [sndPc EXCEPT ![s] = "idle"]
    /\ sndMsg' = [sndMsg EXCEPT ![s] = NoMsg]
    /\ UNCHANGED <<hasNM, nmRunning, messageQueue, queueMutex,
                   processingThread, packetLossRate, wpc, wMsg, wDropped,
                   nextMsg, fate, handed, atStop>>
    /\ UNCHANGED <<engineVars, histVars>>
    /\ UNCHANGED <<meshVars, dmVars, delayVars>>

\* processMessages, line 148 (and the re-lock inside wait after a wake-up)
WorkerLock ==
    /\ ~crashed /\ wpc \in {"lock", "woken"} /\ queueMutex = "free"
    /\ queueMutex' = "worker"
    /\ wpc' = "pred"
    /\ UNCHANGED <<hasNM, nmRunning, messageQueue, processingThread, stats,
                   packetLossRate, wMsg, wDropped, sndPc, sndMsg, nextMsg,
                   fate, handed, atStop, returnedTrue>>
    /\ UNCHANGED <<engineVars, histVars>>
    /\ UNCHANGED <<meshVars, dmVars, delayVars>>

\* line 149: wait(lock, pred) evaluates the predicate with the lock held
WorkerWaitPredicate ==
    /\ ~crashed /\ wpc = "pred"
    /\ wpc' = IF WaitPredicate THEN "check" ELSE "toBlock"
    /\ UNCHANGED <<hasNM, nmRunning, messageQueue, queueMutex,
                   processingThread, stats, packetLossRate, wMsg, wDropped,
                   sndPc, sndMsg, nextMsg, fate, handed, atStop, returnedTrue>>
    /\ UNCHANGED <<engineVars, histVars>>
    /\ UNCHANGED <<meshVars, dmVars, delayVars>>

\* line 149: the predicate was false: wait() releases the lock and blocks
WorkerBlock ==
    /\ ~crashed /\ wpc = "toBlock"
    /\ queueMutex' = "free"
    /\ wpc' = "blocked"
    /\ UNCHANGED <<hasNM, nmRunning, messageQueue, processingThread, stats,
                   packetLossRate, wMsg, wDropped, sndPc, sndMsg, nextMsg,
                   fate, handed, atStop, returnedTrue>>
    /\ UNCHANGED <<engineVars, histVars>>
    /\ UNCHANGED <<meshVars, dmVars, delayVars>>

\* line 153: if (!running): discard what is queued (lines 154-158) and, with
\* an empty queue, break (the unique_lock unlocks, the thread ends)
WorkerCheckRunning ==
    /\ ~crashed /\ wpc = "check"
    /\ IF nmRunning
       THEN /\ wpc' = "take"
            /\ UNCHANGED <<messageQueue, queueMutex, processingThread, wDropped>>
       ELSE IF messageQueue # <<>>
       THEN /\ wDropped' = messageQueue
            /\ messageQueue' = <<>>
            /\ queueMutex' = "free"
            /\ wpc' = "drain_stats"
            /\ UNCHANGED processingThread
       ELSE /\ queueMutex' = "free"
            /\ wpc' = "exited"
            /\ processingThread' = "finished"
            /\ UNCHANGED <<messageQueue, wDropped>>
    /\ UNCHANGED <<hasNM, nmRunning, stats, packetLossRate, wMsg, sndPc,
                   sndMsg, nextMsg, fate, handed, atStop, returnedTrue>>
    /\ UNCHANGED <<engineVars, histVars>>
    /\ UNCHANGED <<meshVars, dmVars, delayVars>>

\* lines 159-164: messagesDropped += dropped; break
WorkerDrainStats ==
    /\ ~crashed /\ wpc = "drain_stats"
    /\ stats' = [stats EXCEPT !.messagesDropped = @ + Len(wDropped)]
    /\ fate' = [i \in 1..MaxMsgs |->
                  IF i \in Ids(wDropped) THEN Append(fate[i], "dropped")
                  ELSE fate[i]]
    /\ wDropped' = <<>>
    /\ wpc' = "exited"
    /\ processingThread' = "finished"
    /\ UNCHANGED <<hasNM, nmRunning, messageQueue, queueMutex,
                   packetLossRate, wMsg, sndPc, sndMsg, nextMsg, handed,
                   atStop, returnedTrue>>
    /\ UNCHANGED <<engineVars, histVars>>
    /\ UNCHANGED <<meshVars, dmVars, delayVars>>

\* a worker that takes the most recently queued message instead of the front
WorkerTakeBack ==
    /\ ~crashed /\ wpc = "take"
    /\ IF messageQueue # <<>>
       THEN /\ wMsg' = messageQueue[Len(messageQueue)]
            /\ messageQueue' = SubSeq(messageQueue, 1, Len(messageQueue) - 1)
            /\ wpc' = "deliver"
       ELSE /\ wpc' = "lock"
            /\ UNCHANGED <<wMsg, messageQueue>>
    /\ queueMutex' = "free"
    /\ UNCHANGED <<hasNM, nmRunning, processingThread, stats,
                   packetLossRate, wDropped, sndPc, sndMsg, nextMsg, fate,
                   handed, atStop, returnedTrue>>
    /\ UNCHANGED <<engineVars, histVars>>
    /\ UNCHANGED <<meshVars, dmVars, delayVars>>

\* lines 167-170: pop the front message and unlock (with an empty queue the
\* iteration ends and the unique_lock unlocks)
WorkerTake ==
    /\ ~crashed /\ wpc = "take"
    /\ IF messageQueue # <<>>
       THEN /\ wMsg' = Head(messageQueue)
            /\ messageQueue' = Tail(messageQueue)
            /\ wpc' = "deliver"
       ELSE /\ wpc' = "lock"
            /\ UNCHANGED <<wMsg, messageQueue>>
    /\ queueMutex' = "free"
    /\ UNCHANGED <<hasNM, nmRunning, processingThread, stats,
                   packetLossRate, wDropped, sndPc, sndMsg, nextMsg, fate,
                   handed, atStop, returnedTrue>>
    /\ UNCHANGED <<engineVars, histVars>>
    /\ UNCHANGED <<meshVars, dmVars, delayVars>>

\* lines 172-179 and deliverMessage, lines 204-261: after the simulated
\* delay, look the destination up; when it exists call sendMessageToDevice,
\* whose result is ok; count received or errors
WorkerDeliver(ok) ==
    /\ ~crashed /\ wpc = "deliver"
    /\ LET exists == wMsg.dst \in devices
           delivered == exists /\ ok
       IN  /\ handed' = IF exists THEN handed \cup {wMsg.id} ELSE handed
           /\ stats' = IF delivered
                       THEN [stats EXCEPT !.messagesReceived = @ + 1]
                       ELSE [stats EXCEPT !.errors = @ + 1]
           /\ fate' = [fate EXCEPT ![wMsg.id] =
                         Append(@, IF delivered THEN "received" ELSE "error")]
    /\ wMsg' = NoMsg
    /\ wpc' = "lock"
    /\ UNCHANGED <<hasNM, nmRunning, messageQueue, queueMutex,
                   processingThread, packetLossRate, wDropped, sndPc, sndMsg,
                   nextMsg, atStop, returnedTrue>>
    /\ UNCHANGED <<engineVars, histVars>>
    /\ UNCHANGED <<meshVars, dmVars, delayVars>>

\* deliverMessage for a registered destination whose receiveData (a virtual
\* of IoTDevice) throws something that is not a std::exception:
\* sendMessageToDevice catches only const std::exception& (lines 94-100 of
\* DeviceManager.cpp), deliverMessage and processMessages catch nothing, so
\* the exception leaves the thread function and std::terminate is called
WorkerDeliverTerminates ==
    /\ ~crashed /\ wpc = "deliver"
    /\ wMsg.dst \in devices
    /\ handed' = handed \cup {wMsg.id}
    /\ crashed' = TRUE
    /\ UNCHANGED <<hasNM, nmRunning, messageQueue, queueMutex,
                   processingThread, stats, packetLossRate, wpc, wMsg,
                   wDropped, sndPc, sndMsg, nextMsg, fate, atStop,
                   returnedTrue>>
    /\ UNCHANGED <<currentState, running, currentTime, eventQueue,
                   totalEventsProcessed, simulationThread, stateMutex,
                   eventMutex, spc, peNow, curEvent, cpc, now, nextSeq,
                   chainStarted, histVars>>
    /\ UNCHANGED <<meshVars, dmVars, delayVars>>

\* a spurious wake-up of the blocked worker
WorkerSpuriousWake ==
    /\ ~crashed /\ wpc = "blocked"
    /\ wpc' = "woken"
    /\ UNCHANGED <<hasNM, nmRunning, messageQueue, queueMutex,
                   processingThread, stats, packetLossRate, wMsg, wDropped,
                   sndPc, sndMsg, nextMsg, fate, handed, atStop, returnedTrue>>
    /\ UNCHANGED <<engineVars, histVars>>
    /\ UNCHANGED <<meshVars, dmVars, delayVars>>

\* ------------------------------------------------- SimulationEngine: control

\* start(), lines 28-52, entirely under stateMutex: the state and the flag,
\* networkManager->start() (line 45), then the scheduler thread (line 49).
\* Assigning a new thread to a simulationThread that is still joinable calls
\* std::terminate.
Start(c) ==
    /\ ~crashed /\ cpc[c] = "idle" /\ stateMutex = "free"
    /\ IF currentState # "STOPPED"
       THEN UNCHANGED <<currentState, running, currentTime, simulationThread,
                        spc, crashed, stopReturned, netVars>>
       ELSE /\ currentState' = "RUNNING"
            /\ running' = TRUE
            /\ currentTime' = now
            /\ stopReturned' = {}
            /\ IF hasNM THEN NMStartBody ELSE UNCHANGED netVars
            /\ IF hasNM /\ NMStartTerminates
               THEN crashed' = TRUE /\ UNCHANGED <<simulationThread, spc>>
               ELSE IF simulationThread # "none"
               THEN crashed' = TRUE /\ UNCHANGED <<simulationThread, spc>>
               ELSE /\ simulationThread' = "live"
                    /\ spc' = "loop"
                    /\ UNCHANGED crashed
    /\ UNCHANGED <<eventQueue, totalEventsProcessed, stateMutex, eventMutex,
                   peNow, curEvent, cpc, now, nextSeq, chainStarted,
                   fireCount, cbInvoked, pausedAt, overdue, passesSinceResume,
                   spawnedInPass>>
    /\ UNCHANGED <<meshVars, dmVars, delayVars>>

\* stop(), lines 55-64: the locked block and the notify_all
StopBegin(c) ==
    /\ ~crashed /\ cpc[c] = "idle" /\ stateMutex = "free"
    /\ IF currentState = "STOPPED"
       THEN /\ stopReturned' = stopReturned \cup {c}
            /\ UNCHANGED <<currentState, running, cpc>>
       ELSE /\ running' = FALSE
            /\ currentState' = "STOPPED"
            /\ cpc' = [cpc EXCEPT ![c] = "stop_join"]
            /\ UNCHANGED stopReturned
    /\ UNCHANGED <<currentTime, eventQueue, totalEventsProcessed,
                   simulationThread, stateMutex, eventMutex, spc, peNow,
                   curEvent, now, nextSeq, crashed, chainStarted,
                   fireCount, cbInvoked, pausedAt, overdue, passesSinceResume,
                   spawnedInPass>>
    /\ UNCHANGED netVars
    /\ UNCHANGED <<meshVars, dmVars, delayVars>>

\* stop() without the join of lines 66-68: the network manager is stopped
\* while the scheduler thread may still run
StopJoinSkipped(c) ==
    /\ ~crashed /\ cpc[c] = "stop_join"
    /\ cpc' = [cpc EXCEPT ![c] = "stop_nm"]
    /\ UNCHANGED <<currentState, running, currentTime, eventQueue,
                   totalEventsProcessed, simulationThread, stateMutex,
                   eventMutex, spc, peNow, curEvent, now, nextSeq, crashed,
                   chainStarted, histVars>>
    /\ UNCHANGED netVars
    /\ UNCHANGED <<meshVars, dmVars, delayVars>>

\* stop(), lines 66-68: if (joinable()) join()
StopJoin(c) ==
    /\ ~crashed /\ cpc[c] = "stop_join"
    /\ simulationThread # "live"
    /\ simulationThread' = "none"
    /\ cpc' = [cpc EXCEPT ![c] = "stop_nm"]
    /\ UNCHANGED <<currentState, running, currentTime, eventQueue,
                   totalEventsProcessed, stateMutex, eventMutex, spc, peNow,
                   curEvent, now, nextSeq, crashed, chainStarted, histVars>>
    /\ UNCHANGED netVars
    /\ UNCHANGED <<meshVars, dmVars, delayVars>>

\* stop(), lines 71-76, for an engine built without a network manager
StopEnd(c) ==
    /\ ~crashed /\ cpc[c] = "stop_nm" /\ ~hasNM
    /\ cpc' = [cpc EXCEPT ![c] = "idle"]
    /\ stopReturned' = stopReturned \cup {c}
    /\ UNCHANGED <<engineVars_but_cpc, fireCount, cbInvoked, pausedAt,
                   overdue, passesSinceResume,
                   spawnedInPass, netVars>>
    /\ UNCHANGED <<meshVars, dmVars, delayVars>>

\* stop(), lines 71-74: networkManager->stop() up to its notify_all; stop()
\* returns at once when the manager is not running
StopNM(c) ==
    /\ ~crashed /\ cpc[c] = "stop_nm" /\ hasNM
    /\ NMStopBody
    /\ cpc' = [cpc EXCEPT ![c] = IF nmRunning THEN "stop_nm_join" ELSE "idle"]
    /\ stopReturned' = IF nmRunning THEN stopReturned ELSE stopReturned \cup {c}
    /\ UNCHANGED <<engineVars_but_cpc, fireCount, cbInvoked, pausedAt,
                   overdue, passesSinceResume,
                   spawnedInPass>>
    /\ UNCHANGED <<meshVars, dmVars, delayVars>>

\* stop(), lines 73-77: the join inside networkManager->stop(), and the return
StopNMJoin(c) ==
    /\ ~crashed /\ cpc[c] = "stop_nm_join"
    /\ NMJoinBody
    /\ cpc' = [cpc EXCEPT ![c] = "idle"]
    /\ stopReturned' = stopReturned \cup {c}
    /\ UNCHANGED <<engineVars_but_cpc, fireCount, cbInvoked, pausedAt,
                   overdue, passesSinceResume,
                   spawnedInPass>>
    /\ UNCHANGED <<meshVars, dmVars, delayVars>>

\* a pause() that does not test the current state
PauseUnguarded(c) ==
    /\ ~crashed /\ cpc[c] = "idle" /\ stateMutex = "free"
    /\ currentState' = "PAUSED" /\ pausedAt' = now
    /\ UNCHANGED <<running, currentTime, eventQueue, totalEventsProcessed,
                   simulationThread, stateMutex, eventMutex, spc, peNow,
                   curEvent, cpc, now, nextSeq, crashed, chainStarted,
                   fireCount, cbInvoked, stopReturned, overdue,
                   passesSinceResume,
                   spawnedInPass>>
    /\ UNCHANGED netVars
    /\ UNCHANGED <<meshVars, dmVars, delayVars>>

\* pause(), lines 79-85
Pause(c) ==
    /\ ~crashed /\ cpc[c] = "idle" /\ stateMutex = "free"
    /\ IF currentState = "RUNNING"
       THEN currentState' = "PAUSED" /\ pausedAt' = now
       ELSE UNCHANGED <<currentState, pausedAt>>
    /\ UNCHANGED <<running, currentTime, eventQueue, totalEventsProcessed,
                   simulationThread, stateMutex, eventMutex, spc, peNow,
                   curEvent, cpc, now, nextSeq, crashed, chainStarted,
                   fireCount, cbInvoked, stopReturned, overdue,
                   passesSinceResume,
                   spawnedInPass>>
    /\ UNCHANGED netVars
    /\ UNCHANGED <<meshVars, dmVars, delayVars>>

\* resume(), lines 87-93
Resume(c) ==
    /\ ~crashed /\ cpc[c] = "idle" /\ stateMutex = "free"
    /\ IF currentState = "PAUSED"
       THEN /\ currentState' = "RUNNING"
            /\ overdue' = {e \in eventQueue : e.time <= now}
            /\ passesSinceResume' = 0
       ELSE UNCHANGED <<currentState, overdue, passesSinceResume>>
    /\ UNCHANGED spawnedInPass
    /\ UNCHANGED <<running, currentTime, eventQueue, totalEventsProcessed,
                   simulationThread, stateMutex, eventMutex, spc, peNow,
                   curEvent, cpc, now, nextSeq, crashed, chainStarted,
                   fireCount, cbInvoked, stopReturned, pausedAt>>
    /\ UNCHANGED netVars
    /\ UNCHANGED <<meshVars, dmVars, delayVars>>

\* ---------------------------------------------- SimulationEngine: scheduling

\* scheduleEvent(delay, callback, "", priority) called by the application,
\* lines 100-121
ScheduleEvent(delay, prio, cb) ==
    /\ ~crashed
    /\ PushEvent(NewEvent(delay, prio, AutoId("EVENT"), "user", cb, 0))
    /\ UNCHANGED <<currentState, running, currentTime, totalEventsProcessed,
                   simulationThread, stateMutex, eventMutex, spc, peNow,
                   curEvent, cpc, now, crashed, chainStarted, histVars>>
    /\ UNCHANGED netVars
    /\ UNCHANGED <<meshVars, dmVars, delayVars>>

\* scheduleRepeatingEvent(interval, callback, "", priority) called by the
\* application, lines 123-141: pushes repeatingCallback, due in one interval
ScheduleRepeatingEvent(interval, prio, cb) ==
    /\ ~crashed /\ ~chainStarted
    /\ PushEvent(NewEvent(interval, prio, AutoId("REPEAT"), "repeat", cb, interval))
    /\ chainStarted' = TRUE
    /\ UNCHANGED <<currentState, running, currentTime, totalEventsProcessed,
                   simulationThread, stateMutex, eventMutex, spc, peNow,
                   curEvent, cpc, now, crashed, histVars>>
    /\ UNCHANGED netVars
    /\ UNCHANGED <<meshVars, dmVars, delayVars>>

\* scheduleEvent(delay, cb, "", 0) called by the application, lines 100-121,
\* with a callback cb that itself calls scheduleEvent(again, cb): kind
\* "spawn", the delay `again` kept in the interval field
ScheduleSpawningEvent(delay, again) ==
    /\ ~crashed
    /\ PushEvent(NewEvent(delay, 0, AutoId("EVENT"), "spawn", "ok", again))
    /\ UNCHANGED <<currentState, running, currentTime, totalEventsProcessed,
                   simulationThread, stateMutex, eventMutex, spc, peNow,
                   curEvent, cpc, now, crashed, chainStarted, histVars>>
    /\ UNCHANGED netVars
    /\ UNCHANGED <<meshVars, dmVars, delayVars>>

\* ------------------------------------------- DeviceManager and broadcasts

dmOther == <<engineVars, histVars, meshVars, delayVars>>
netVars_but_stats == <<hasNM, nmRunning, messageQueue, queueMutex,
                       processingThread, packetLossRate, wpc, wMsg, wDropped,
                       sndPc, sndMsg, nextMsg, fate, handed, atStop,
                       returnedTrue>>

\* DeviceManager::registerDevice, src/unnamed/part_004 lines 12-30
RegisterDevice(id) ==
    /\ devices' = devices \cup {id}
    /\ UNCHANGED <<broadcast, netVars, dmOther>>

\* DeviceManager::unregisterDevice, src/unnamed/part_004 lines 32-43
UnregisterDevice(id) ==
    /\ devices' = devices \ {id}
    /\ UNCHANGED <<broadcast, netVars, dmOther>>

\* the keys of `devices` in the order the range-for of line 105 visits them
Sorted(ds) ==
    SelectSeq(DeviceOrder, LAMBDA d : d \in ds)

\* DeviceManager::broadcastMessage, src/unnamed/part_004 lines 102-115: the
\* loop over `ids`. receiveData is called on every device but the source; a
\* std::exception it throws is caught and logged at lines 111-113 and the loop
\* goes on; anything else it throws leaves the loop and the function.
RECURSIVE DeliverAll(_, _, _, _)
DeliverAll(ids, source, behave, acc) ==
    IF ids = <<>>
    THEN [acc EXCEPT !.outcome = "returned"]
    ELSE LET id == Head(ids)
             called == [acc EXCEPT !.invoked = Append(@, id)]
             threw == [called EXCEPT !.failed = @ \cup {id}]
         IN  IF id = source
             THEN DeliverAll(Tail(ids), source, behave, acc)
             ELSE CASE behave[id] = "ok" ->
                           DeliverAll(Tail(ids), source, behave, called)
                    [] behave[id] = "throwStd" ->
                           DeliverAll(Tail(ids), source, behave, threw)
                    [] behave[id] = "throwOther" ->
                           [threw EXCEPT !.outcome = "propagated"]

\* NetworkManager::broadcastMessage, lines 75-85, of a manager built with a
\* device manager: the registry's broadcast, then messagesSent grows by
\* getDeviceCount(); an exception leaving the registry's broadcast leaves this
\* function too, before the statistics are touched. behave[d] is what
\* receiveData of device d does with this message.
BroadcastMessage(source, behave) ==
    LET r == DeliverAll(Sorted(devices), source, behave,
                        [NoBroadcast EXCEPT !.source = source,
                                            !.registered = devices])
    IN  /\ ~crashed
        /\ stats.messagesSent + Cardinality(devices) <= MaxSent
        /\ broadcast' = r
        /\ stats' = IF r.outcome = "returned"
                    THEN [stats EXCEPT !.messagesSent =
                                           @ + Cardinality(devices)]
                    ELSE stats
        /\ UNCHANGED <<devices, netVars_but_stats, dmOther>>

\* ------------------------------------------------------ network conditions

\* operator< on doubles
Less(a, b) ==
    a # NaN /\ b # NaN /\ a < b

\* std::max(a, b): (a < b) ? b : a
StdMax(a, b) ==
    IF Less(a, b) THEN b ELSE a

\* std::min(a, b): (b < a) ? b : a
StdMin(a, b) ==
    IF Less(b, a) THEN b ELSE a

\* setNetworkConditions that stores its arguments as given
SetNetworkConditionsUnclamped(packetLoss, delayMin, delayMax) ==
    /\ packetLossRate' = packetLoss
    /\ networkDelayMin' = delayMin
    /\ networkDelayMax' = delayMax
    /\ UNCHANGED <<hasNM, nmRunning, messageQueue, queueMutex,
                   processingThread, stats, wpc, wMsg, wDropped, sndPc,
                   sndMsg, nextMsg, fate, handed, atStop, returnedTrue>>
    /\ UNCHANGED <<engineVars, histVars, meshVars, dmVars>>

\* NetworkManager::setNetworkConditions, lines 107-111 (the loss rate in
\* percent)
SetNetworkConditions(packetLoss, delayMin, delayMax) ==
    /\ packetLossRate' = StdMax(0, StdMin(100, packetLoss))
    /\ networkDelayMin' = StdMax(0, delayMin)
    /\ networkDelayMax' = StdMax(StdMax(0, delayMin), delayMax)
    /\ UNCHANGED <<hasNM, nmRunning, messageQueue, queueMutex,
                   processingThread, stats, wpc, wMsg, wDropped, sndPc,
                   sndMsg, nextMsg, fate, handed, atStop, returnedTrue>>
    /\ UNCHANGED <<engineVars, histVars, meshVars, dmVars>>

\* --------------------------------------------------------------- MeshNetwork

Contains(seq, v) == \E i \in 1..Len(seq) : seq[i] = v
\* std::remove + erase of every occurrence of v
Erase(seq, v) == SelectSeq(seq, LAMBDA x : x # v)
Reverse(seq) == [i \in 1..Len(seq) |-> seq[Len(seq) + 1 - i]]

\* nodes[id] = node
PutNode(ns, id, node) ==
    [x \in DOMAIN ns \cup {id} |-> IF x = id THEN node ELSE ns[x]]
\* nodes.erase(id)
EraseNode(ns, id) == [x \in DOMAIN ns \ {id} |-> ns[x]]
\* nodes[id].hopCountToGateway = h; operator[] inserts a value-initialized
\* node when the key is missing
SetHop(ns, id, h) ==
    PutNode(ns, id,
            [(IF id \in DOMAIN ns THEN ns[id] ELSE NoNode)
                EXCEPT !.hopCountToGateway = h])

\* the neighbor loop without the visited table: a neighbor is relabelled and
\* queued again every time it is seen below the ceiling
RECURSIVE HopScanRevisits(_, _, _, _, _, _)
HopScanRevisits(nbrs, nextHops, ns, visited, queue, mh) ==
    IF nbrs = <<>>
    THEN [ns |-> ns, visited |-> visited, queue |-> queue]
    ELSE LET neighborId == Head(nbrs)
         IN  HopScanRevisits(Tail(nbrs), nextHops,
                             SetHop(ns, neighborId, nextHops),
                             visited \cup {neighborId},
                             IF nextHops < mh
                             THEN Append(queue, <<neighborId, nextHops>>)
                             ELSE queue,
                             mh)

\* updateHopCounts, lines 286-297: the loop over the neighbors of the node
\* taken from the queue
RECURSIVE HopScan(_, _, _, _, _, _)
HopScan(nbrs, nextHops, ns, visited, queue, mh) ==
    IF nbrs = <<>>
    THEN [ns |-> ns, visited |-> visited, queue |-> queue]
    ELSE LET neighborId == Head(nbrs)
         IN  IF \/ neighborId \notin visited
                \/ ns[neighborId].hopCountToGateway > nextHops
             THEN HopScan(Tail(nbrs), nextHops,
                          SetHop(ns, neighborId, nextHops),
                          visited \cup {neighborId},
                          IF nextHops < mh
                          THEN Append(queue, <<neighborId, nextHops>>)
                          ELSE queue,
                          mh)
             ELSE HopScan(Tail(nbrs), nextHops, ns, visited, queue, mh)

\* updateHopCounts, lines 279-298: the loop over the queue
RECURSIVE HopBfs(_, _, _, _)
HopBfs(ns, visited, queue, mh) ==
    IF queue = <<>>
    THEN ns
    ELSE LET currentDevice == Head(queue)[1]
             currentHops == Head(queue)[2]
             r == HopScan(ns[currentDevice].neighbors, currentHops + 1,
                          ns, visited, Tail(queue), mh)
         IN  HopBfs(r.ns, r.visited, r.queue, mh)

\* the loop over the queue, lines 279-298, followed for at most `fuel` turns
\* and keeping the log `pushes` of the ids given to queue.push: `emptied`
\* tells whether the queue ran empty within these turns
RECURSIVE HopRun(_, _, _, _, _, _)
HopRun(ns, visited, queue, mh, pushes, fuel) ==
    IF queue = <<>>
    THEN [emptied |-> TRUE, pushes |-> pushes]
    ELSE IF fuel = 0
    THEN [emptied |-> FALSE, pushes |-> pushes]
    ELSE LET currentDevice == Head(queue)[1]
             currentHops == Head(queue)[2]
             r == HopScan(ns[currentDevice].neighbors, currentHops + 1,
                          ns, visited, Tail(queue), mh)
             pushed == SubSeq(r.queue, Len(queue), Len(r.queue))
         IN  HopRun(r.ns, r.visited, r.queue, mh,
                    pushes \o [i \in 1..Len(pushed) |-> pushed[i][1]],
                    fuel - 1)

\* the run of updateHopCounts(), lines 260-299, on the table ns with gateway
\* gw and ceiling mh
HopRunFrom(ns, gw, mh, fuel) ==
    IF gw = ""
    THEN [emptied |-> TRUE, pushes |-> <<>>]
    ELSE LET reset == [x \in DOMAIN ns |->
                         [ns[x] EXCEPT !.hopCountToGateway =
                                          IF x # gw THEN mh ELSE 0]]
         IN  HopRun(reset, {gw}, <<<<gw, 0>>>>, mh, <<gw>>, fuel)

\* updateHopCounts(), lines 260-299, on the table ns with gateway gw
UpdateHopCounts(ns, gw, mh) ==
    IF gw = ""
    THEN ns
    ELSE LET reset == [x \in DOMAIN ns |->
                         [ns[x] EXCEPT !.hopCountToGateway =
                                          IF x # gw THEN mh ELSE 0]]
         IN  HopBfs(reset, {gw}, <<<<gw, 0>>>>, mh)

\* bfsShortestPath, lines 243-251: walk the parents back from the target,
\* then reverse
RECURSIVE WalkBack(_, _, _)
WalkBack(parent, node, start) ==
    IF node = start
    THEN <<start>>
    ELSE <<node>> \o WalkBack(parent, parent[node], start)

\* bfsShortestPath, lines 235-254: the loop over the neighbors of `current`
RECURSIVE PathScan(_, _, _, _, _, _, _)
PathScan(nbrs, current, visited, parent, queue, start, target) ==
    IF nbrs = <<>>
    THEN [found |-> FALSE, visited |-> visited, parent |-> parent,
          queue |-> queue]
    ELSE LET neighborId == Head(nbrs)
             parent2 == [x \in DOMAIN parent \cup {neighborId} |->
                           IF x = neighborId THEN current ELSE parent[x]]
         IN  IF neighborId \in visited
             THEN PathScan(Tail(nbrs), current, visited, parent, queue,
                           start, target)
             ELSE IF neighborId = target
             THEN [found |-> TRUE,
                   path |-> Reverse(WalkBack(parent2, target, start))]
             ELSE PathScan(Tail(nbrs), current, visited \cup {neighborId},
                           parent2, Append(queue, neighborId), start, target)

\* bfsShortestPath, lines 230-257: the loop over the queue; nodes.at(current)
\* throws std::out_of_range for an id that is not in the table
RECURSIVE PathBfs(_, _, _, _, _, _)
PathBfs(ns, queue, visited, parent, start, target) ==
    IF queue = <<>>
    THEN [threw |-> FALSE, path |-> <<>>]
    ELSE LET current == Head(queue)
         IN  IF current \notin DOMAIN ns
             THEN [threw |-> TRUE, path |-> <<>>]
             ELSE LET r == PathScan(ns[current].neighbors, current, visited,
                                    parent, Tail(queue), start, target)
                  IN  IF r.found
                      THEN [threw |-> FALSE, path |-> r.path]
                      ELSE PathBfs(ns, r.queue, r.visited, r.parent,
                                   start, target)

\* bfsShortestPath(start, target), lines 214-258
BfsShortestPath(ns, start, target) ==
    IF start \notin DOMAIN ns \/ target \notin DOMAIN ns
    THEN [threw |-> FALSE, path |-> <<>>]
    ELSE IF start = target
    THEN [threw |-> FALSE, path |-> <<start>>]
    ELSE PathBfs(ns, <<start>>, {start}, [x \in {} |-> ""], start, target)

\* what a mutation reports to its caller: the bool it returns (addDevice,
\* addNeighbor, removeDevice) or, for the void setGateway, which of its two
\* diagnostics it prints ("set as gateway" / "not found in mesh network")
Returned(ok) ==
    [op |-> "mutate", result |-> ok]

\* addDevice without the lookup of line 14: an existing node is replaced
AddDeviceOverwrites(deviceId, isGatewayNode) ==
    /\ nodes' = PutNode(nodes, deviceId,
                        [neighbors |-> <<>>,
                         hopCountToGateway |->
                             IF isGatewayNode THEN 0 ELSE maxHops,
                         isGateway |-> isGatewayNode])
    /\ gatewayId' = IF isGatewayNode THEN deviceId ELSE gatewayId
    /\ lastOp' = Returned(TRUE)
    /\ UNCHANGED <<maxHops, engineVars, histVars, netVars,
                   dmVars, delayVars>>

\* addDevice(deviceId, isGatewayNode), lines 13-35
AddDevice(deviceId, isGatewayNode) ==
    /\ IF deviceId \in DOMAIN nodes
       THEN UNCHANGED <<nodes, gatewayId>>
       ELSE /\ nodes' = PutNode(nodes, deviceId,
                                [neighbors |-> <<>>,
                                 hopCountToGateway |->
                                     IF isGatewayNode THEN 0 ELSE maxHops,
                                 isGateway |-> isGatewayNode])
            /\ gatewayId' = IF isGatewayNode THEN deviceId ELSE gatewayId
    /\ lastOp' = Returned(deviceId \notin DOMAIN nodes)
    /\ UNCHANGED <<maxHops, engineVars, histVars, netVars,
                   dmVars, delayVars>>

\* lines 46-55 without the two std::find tests: both ids are always appended
AddBidirectionalAppends(ns, deviceId, neighborId) ==
    LET n1 == [ns EXCEPT ![deviceId].neighbors = Append(@, neighborId)]
    IN  [n1 EXCEPT ![neighborId].neighbors = Append(@, deviceId)]

\* "Add bidirectional relationship", lines 46-55: each id is appended to the
\* other's list unless std::find sees it there
AddBidirectional(ns, deviceId, neighborId) ==
    LET n1 == IF Contains(ns[deviceId].neighbors, neighborId)
              THEN ns
              ELSE [ns EXCEPT ![deviceId].neighbors = Append(@, neighborId)]
    IN  IF Contains(n1[neighborId].neighbors, deviceId)
        THEN n1
        ELSE [n1 EXCEPT ![neighborId].neighbors = Append(@, deviceId)]

\* addNeighbor(deviceId, neighborId), lines 37-63
AddNeighbor(deviceId, neighborId) ==
    /\ IF deviceId \notin DOMAIN nodes \/ neighborId \notin DOMAIN nodes
       THEN UNCHANGED nodes
       ELSE nodes' = UpdateHopCounts(AddBidirectional(nodes, deviceId, neighborId),
                                     gatewayId, maxHops)
    /\ lastOp' = Returned(deviceId \in DOMAIN nodes /\ neighborId \in DOMAIN nodes)
    /\ UNCHANGED <<gatewayId, maxHops, engineVars, histVars, netVars,
                   dmVars, delayVars>>

\* the position of deviceId in its own neighbor list, 0 when it is not there
SelfIndex(ns, deviceId) ==
    LET l == ns[deviceId].neighbors
    IN  IF Contains(l, deviceId)
        THEN CHOOSE i \in 1..Len(l) : l[i] = deviceId
        ELSE 0

\* removeDevice(deviceId), lines 65-93. The loop of lines 73-79 walks the
\* node's own neighbor list; when the node lists itself, line 77 erases from
\* the very vector being walked, and the walk goes on over shifted and
\* destroyed elements with the end it cached (undefined behaviour): the
\* neighbors listed before the node itself are pruned, of those listed after
\* it any subset `later` is.
RemoveDevice(deviceId, later) ==
    /\ IF deviceId \notin DOMAIN nodes
       THEN UNCHANGED <<nodes, gatewayId>>
       ELSE LET l == nodes[deviceId].neighbors
                k == SelfIndex(nodes, deviceId)
                before == {l[i] : i \in 1..(IF k = 0 THEN Len(l) ELSE k)}
                after == IF k = 0 THEN {} ELSE {l[i] : i \in (k + 1)..Len(l)}
                pruned == before \cup (after \cap later)
                n1 == [x \in DOMAIN nodes |->
                         IF x \in pruned
                         THEN [nodes[x] EXCEPT !.neighbors = Erase(@, deviceId)]
                         ELSE nodes[x]]
                gw == IF deviceId = gatewayId THEN "" ELSE gatewayId
            IN  /\ later \subseteq after
                /\ gatewayId' = gw
                /\ nodes' = UpdateHopCounts(EraseNode(n1, deviceId), gw, maxHops)
    /\ deviceId \notin DOMAIN nodes => later = {}
    /\ lastOp' = Returned(deviceId \in DOMAIN nodes)
    /\ UNCHANGED <<maxHops, engineVars, histVars, netVars,
                   dmVars, delayVars>>

\* setGateway(deviceId), lines 129-152
SetGateway(deviceId) ==
    /\ IF deviceId \in DOMAIN nodes
       THEN LET n1 == IF gatewayId # "" /\ gatewayId \in DOMAIN nodes
                      THEN [nodes EXCEPT ![gatewayId].isGateway = FALSE]
                      ELSE nodes
                n2 == [n1 EXCEPT ![deviceId].isGateway = TRUE,
                                 ![deviceId].hopCountToGateway = 0]
            IN  /\ gatewayId' = deviceId
                /\ nodes' = UpdateHopCounts(n2, deviceId, maxHops)
       ELSE UNCHANGED <<nodes, gatewayId>>
    /\ lastOp' = Returned(deviceId \in DOMAIN nodes)
    /\ UNCHANGED <<maxHops, engineVars, histVars, netVars,
                   dmVars, delayVars>>

\* findOptimalPath(sourceDevice), lines 95-102
FindOptimalPath(sourceDevice) ==
    /\ lastOp' = [op |-> "findOptimalPath", id |-> sourceDevice,
                  result |-> IF gatewayId = ""
                             THEN [threw |-> FALSE, path |-> <<>>]
                             ELSE BfsShortestPath(nodes, sourceDevice,
                                                  gatewayId)]
    /\ UNCHANGED <<nodes, gatewayId, maxHops, engineVars, histVars, netVars,
                   dmVars, delayVars>>

\* getHopCount(deviceId), lines 109-115
HopCountOf(deviceId) ==
    IF deviceId \in DOMAIN nodes
    THEN nodes[deviceId].hopCountToGateway
    ELSE maxHops

GetHopCount(deviceId) ==
    /\ lastOp' = [op |-> "getHopCount", id |-> deviceId,
                  result |-> HopCountOf(deviceId)]
    /\ UNCHANGED <<nodes, gatewayId, maxHops, engineVars, histVars, netVars,
                   dmVars, delayVars>>

\* canReachGateway(deviceId), lines 117-119
CanReachGateway(deviceId) ==
    /\ lastOp' = [op |-> "canReachGateway", id |-> deviceId,
                  result |-> HopCountOf(deviceId) < maxHops]
    /\ UNCHANGED <<nodes, gatewayId, maxHops, engineVars, histVars, netVars,
                   dmVars, delayVars>>

\* every sequence of topology calls, a device being made its own neighbor
\* included
Mutate ==
    \/ \E id \in MeshIds, g \in BOOLEAN : AddDevice(id, g)
    \/ \E a \in MeshIds, b \in MeshIds : AddNeighbor(a, b)
    \/ \E id \in MeshIds, later \in SUBSET MeshIds : RemoveDevice(id, later)
    \/ \E id \in MeshIds : SetGateway(id)

\* ------------------------------------------------------ the scheduler thread

\* while (running), line 223; the thread function returns when it is false
SchedLoop ==
    /\ ~crashed /\ spc = "loop"
    /\ IF running
       THEN spc' = "lockState" /\ UNCHANGED simulationThread
       ELSE spc' = "exited" /\ simulationThread' = "finished"
    /\ UNCHANGED <<currentState, running, currentTime, eventQueue,
                   totalEventsProcessed, stateMutex, eventMutex, peNow,
                   curEvent, cpc, now, nextSeq, crashed, chainStarted, histVars>>
    /\ UNCHANGED netVars
    /\ UNCHANGED <<meshVars, dmVars, delayVars>>

\* lines 224-231: lock stateMutex and test currentState; when it is not
\* RUNNING the thread sleeps 10 ms with the lock_guard still in scope
SchedCheckState ==
    /\ ~crashed /\ spc = "lockState" /\ stateMutex = "free"
    /\ IF currentState # "RUNNING"
       THEN spc' = "pauseSleep" /\ stateMutex' = "sched"
       ELSE spc' = "step" /\ UNCHANGED stateMutex
    /\ UNCHANGED <<currentState, running, currentTime, eventQueue,
                   totalEventsProcessed, simulationThread, eventMutex, peNow,
                   curEvent, cpc, now, nextSeq, crashed, chainStarted, histVars>>
    /\ UNCHANGED netVars
    /\ UNCHANGED <<meshVars, dmVars, delayVars>>

\* lines 228-230: the sleep ends, `continue` leaves the block and unlocks
SchedPauseWake ==
    /\ ~crashed /\ spc = "pauseSleep"
    /\ stateMutex' = "free"
    /\ spc' = "loop"
    /\ UNCHANGED <<currentState, running, currentTime, eventQueue,
                   totalEventsProcessed, simulationThread, eventMutex, peNow,
                   curEvent, cpc, now, nextSeq, crashed, chainStarted, histVars>>
    /\ UNCHANGED netVars
    /\ UNCHANGED <<meshVars, dmVars, delayVars>>

\* simulationStep(), lines 276-286 (the step counter has no reader but
\* printStats and is left out)
SimulationStep ==
    /\ ~crashed /\ spc = "step"
    /\ currentTime' = now
    /\ spc' = "pe_now"
    /\ UNCHANGED <<currentState, running, eventQueue, totalEventsProcessed,
                   simulationThread, stateMutex, eventMutex, peNow, curEvent,
                   cpc, now, nextSeq, crashed, chainStarted, histVars>>
    /\ UNCHANGED netVars
    /\ UNCHANGED <<meshVars, dmVars, delayVars>>

\* a processEvents whose time snapshot runs one unit ahead of the clock
ProcessEventsBeginAhead ==
    /\ ~crashed /\ spc = "pe_now"
    /\ peNow' = now + 1
    /\ spc' = "pe_lock"
    /\ passesSinceResume' = IF passesSinceResume < 2 THEN passesSinceResume + 1
                            ELSE passesSinceResume
    /\ UNCHANGED spawnedInPass
    /\ UNCHANGED <<currentState, running, currentTime, eventQueue,
                   totalEventsProcessed, simulationThread, stateMutex,
                   eventMutex, curEvent, cpc, now, nextSeq, crashed,
                   chainStarted, fireCount, cbInvoked, stopReturned, pausedAt,
                   overdue>>
    /\ UNCHANGED netVars
    /\ UNCHANGED <<meshVars, dmVars, delayVars>>

\* processEvents(), line 254: auto now = steady_clock::now()
ProcessEventsBegin ==
    /\ ~crashed /\ spc = "pe_now"
    /\ peNow' = now
    /\ spc' = "pe_lock"
    /\ passesSinceResume' = IF passesSinceResume < 2 THEN passesSinceResume + 1
                            ELSE passesSinceResume
    /\ UNCHANGED spawnedInPass
    /\ UNCHANGED <<currentState, running, currentTime, eventQueue,
                   totalEventsProcessed, simulationThread, stateMutex,
                   eventMutex, curEvent, cpc, now, nextSeq, crashed,
                   chainStarted, fireCount, cbInvoked, stopReturned, pausedAt,
                   overdue>>
    /\ UNCHANGED netVars
    /\ UNCHANGED <<meshVars, dmVars, delayVars>>

\* lines 256 and 272: lock eventMutex
ProcessEventsLock ==
    /\ ~crashed /\ spc \in {"pe_lock", "pe_relock"} /\ eventMutex = "free"
    /\ eventMutex' = "sched"
    /\ spc' = "pe_test"
    /\ UNCHANGED <<currentState, running, currentTime, eventQueue,
                   totalEventsProcessed, simulationThread, stateMutex, peNow,
                   curEvent, cpc, now, nextSeq, crashed, chainStarted, histVars>>
    /\ UNCHANGED netVars
    /\ UNCHANGED <<meshVars, dmVars, delayVars>>

\* lines 257-260 without the unlock of line 261: the callback would run
\* under eventMutex
ProcessEventsPopKeepsLock ==
    /\ ~crashed /\ spc = "pe_test"
    /\ \E e \in eventQueue :
        /\ IsTop(e, eventQueue)
        /\ e.time <= peNow
        /\ curEvent' = e
        /\ eventQueue' = PopTop(eventQueue, e)
    /\ spc' = "pe_cb"
    /\ UNCHANGED <<currentState, running, currentTime, totalEventsProcessed,
                   simulationThread, stateMutex, eventMutex, peNow, cpc, now,
                   nextSeq, crashed, chainStarted, histVars>>
    /\ UNCHANGED netVars
    /\ UNCHANGED <<meshVars, dmVars, delayVars>>

\* lines 257-261: the loop test succeeds: copy top(), pop(), unlock
ProcessEventsPop ==
    /\ ~crashed /\ spc = "pe_test"
    /\ \E e \in eventQueue :
        /\ IsTop(e, eventQueue)
        /\ e.time <= peNow
        /\ curEvent' = e
        /\ eventQueue' = PopTop(eventQueue, e)
    /\ eventMutex' = "free"
    /\ spc' = "pe_cb"
    /\ UNCHANGED <<currentState, running, currentTime, totalEventsProcessed,
                   simulationThread, stateMutex, peNow, cpc, now, nextSeq,
                   crashed, chainStarted, histVars>>
    /\ UNCHANGED netVars
    /\ UNCHANGED <<meshVars, dmVars, delayVars>>

\* line 257 fails: the queue is empty or its top is not due; the function
\* returns and the unique_lock unlocks
ProcessEventsEnd ==
    /\ ~crashed /\ spc = "pe_test"
    /\ \A e \in eventQueue : IsTop(e, eventQueue) => e.time > peNow
    /\ eventMutex' = "free"
    /\ spc' = "sleep"
    /\ spawnedInPass' = {}
    /\ UNCHANGED <<currentState, running, currentTime, eventQueue,
                   totalEventsProcessed, simulationThread, stateMutex, peNow,
                   curEvent, cpc, now, nextSeq, crashed, chainStarted,
                   histVars_but_spawned>>
    /\ UNCHANGED netVars
    /\ UNCHANGED <<meshVars, dmVars, delayVars>>

\* what the callback of a chain event hands to scheduleEvent once it runs:
\*   repeatingCallback (lines 130-138), after callback(): the inner lambda,
\*     due one interval from now;
\*   the inner lambda (lines 134-136): scheduleRepeatingEvent, which pushes
\*     repeatingCallback again (line 140), due one interval from now.
ChainNext(e) ==
    NewEvent(e.interval, e.prio, e.id,
             IF e.kind = "repeat" THEN "tramp" ELSE "repeat", e.cb, e.interval)

\* lines 263-270, event.callback() for an application callback: it returns
\* (totalEventsProcessed++), throws a std::exception (caught, line 268), or
\* throws anything else (no handler: std::terminate)
RunUserCallback ==
    /\ ~crashed /\ spc = "pe_cb" /\ curEvent.kind = "user"
    /\ fireCount' = [fireCount EXCEPT ![curEvent.seq] = @ + 1]
    /\ totalEventsProcessed' =
           IF curEvent.cb = "ok" THEN totalEventsProcessed + 1
           ELSE totalEventsProcessed
    /\ crashed' = (curEvent.cb = "throwOther")
    /\ spc' = "pe_relock"
    /\ UNCHANGED <<currentState, running, currentTime, eventQueue,
                   simulationThread, stateMutex, eventMutex, peNow, curEvent,
                   cpc, now, nextSeq, chainStarted, cbInvoked, stopReturned,
                   pausedAt, overdue, passesSinceResume,
                   spawnedInPass>>
    /\ UNCHANGED netVars
    /\ UNCHANGED <<meshVars, dmVars, delayVars>>

\* repeatingCallback, line 131: callback(); an exception leaves
\* repeatingCallback before it reschedules
RunRepeatingCallback ==
    /\ ~crashed /\ spc = "pe_cb" /\ curEvent.kind = "repeat"
    /\ fireCount' = [fireCount EXCEPT ![curEvent.seq] = @ + 1]
    /\ cbInvoked' = cbInvoked + 1
    /\ crashed' = (curEvent.cb = "throwOther")
    /\ spc' = IF curEvent.cb = "ok" THEN "pe_resched" ELSE "pe_relock"
    /\ UNCHANGED <<currentState, running, currentTime, eventQueue,
                   totalEventsProcessed, simulationThread, stateMutex,
                   eventMutex, peNow, curEvent, cpc, now, nextSeq,
                   chainStarted, stopReturned, pausedAt, overdue, passesSinceResume,
                   spawnedInPass>>
    /\ UNCHANGED netVars
    /\ UNCHANGED <<meshVars, dmVars, delayVars>>

\* a repeatingCallback that pushes its successor directly and the inner
\* lambda as well
RepeatingRescheduleTwice ==
    /\ ~crashed /\ spc = "pe_resched"
    /\ eventMutex = "free"
    /\ nextSeq + 1 < MaxEvents
    /\ eventQueue' = eventQueue \cup
           {ChainNext(curEvent),
            [ChainNext(curEvent) EXCEPT !.seq = nextSeq + 2, !.kind = "repeat"]}
    /\ nextSeq' = nextSeq + 2
    /\ totalEventsProcessed' = totalEventsProcessed + 1
    /\ spc' = "pe_relock"
    /\ UNCHANGED <<currentState, running, currentTime, simulationThread,
                   stateMutex, eventMutex, peNow, curEvent, cpc, now, crashed,
                   chainStarted, histVars>>
    /\ UNCHANGED netVars
    /\ UNCHANGED <<meshVars, dmVars, delayVars>>

\* repeatingCallback, lines 133-137: scheduleEvent(interval, <inner lambda>),
\* then the callback returns and line 266 counts it
RepeatingReschedule ==
    /\ ~crashed /\ spc = "pe_resched"
    /\ PushEvent(ChainNext(curEvent))
    /\ totalEventsProcessed' = totalEventsProcessed + 1
    /\ spc' = "pe_relock"
    /\ UNCHANGED <<currentState, running, currentTime, simulationThread,
                   stateMutex, eventMutex, peNow, curEvent, cpc, now, crashed,
                   chainStarted, histVars>>
    /\ UNCHANGED netVars
    /\ UNCHANGED <<meshVars, dmVars, delayVars>>

\* the inner lambda, line 135: scheduleRepeatingEvent(interval, callback, ...)
RunTrampoline ==
    /\ ~crashed /\ spc = "pe_cb" /\ curEvent.kind = "tramp"
    /\ PushEvent(ChainNext(curEvent))
    /\ fireCount' = [fireCount EXCEPT ![curEvent.seq] = @ + 1]
    /\ totalEventsProcessed' = totalEventsProcessed + 1
    /\ spc' = "pe_relock"
    /\ UNCHANGED <<currentState, running, currentTime, simulationThread,
                   stateMutex, eventMutex, peNow, curEvent, cpc, now, crashed,
                   chainStarted, cbInvoked, stopReturned, pausedAt, overdue,
                   passesSinceResume,
                   spawnedInPass>>
    /\ UNCHANGED netVars
    /\ UNCHANGED <<meshVars, dmVars, delayVars>>

\* lines 263-266 for a callback that calls scheduleEvent(again, itself)
\* (lines 100-121: scheduledTime = now() + again, push under eventMutex) and
\* returns; it stops scheduling once MaxEvents events have been created
RunSpawningCallback ==
    /\ ~crashed /\ spc = "pe_cb" /\ curEvent.kind = "spawn"
    /\ IF nextSeq < MaxEvents
       THEN /\ PushEvent(NewEvent(curEvent.interval, 0, AutoId("EVENT"),
                                  "spawn", "ok", curEvent.interval))
            /\ spawnedInPass' = spawnedInPass \cup {nextSeq + 1}
       ELSE UNCHANGED <<eventQueue, nextSeq, spawnedInPass>>
    /\ fireCount' = [fireCount EXCEPT ![curEvent.seq] = @ + 1]
    /\ totalEventsProcessed' = totalEventsProcessed + 1
    /\ spc' = "pe_relock"
    /\ UNCHANGED <<currentState, running, currentTime, simulationThread,
                   stateMutex, eventMutex, peNow, curEvent, cpc, now, crashed,
                   chainStarted, cbInvoked, stopReturned, pausedAt, overdue,
                   passesSinceResume>>
    /\ UNCHANGED netVars
    /\ UNCHANGED <<meshVars, dmVars, delayVars>>

\* runSimulation without its while loop: one pass, and the thread ends
SchedSleepReturns ==
    /\ ~crashed /\ spc = "sleep"
    /\ spc' = "exited" /\ simulationThread' = "finished"
    /\ UNCHANGED <<currentState, running, currentTime, eventQueue,
                   totalEventsProcessed, stateMutex, eventMutex, peNow,
                   curEvent, cpc, now, nextSeq, crashed, chainStarted,
                   histVars>>
    /\ UNCHANGED netVars
    /\ UNCHANGED <<meshVars, dmVars, delayVars>>

\* lines 240-247: sleep for the time step, then the next iteration
SchedSleep ==
    /\ ~crashed /\ spc = "sleep"
    /\ spc' = "loop"
    /\ UNCHANGED <<currentState, running, currentTime, eventQueue,
                   totalEventsProcessed, simulationThread, stateMutex,
                   eventMutex, peNow, curEvent, cpc, now, nextSeq, crashed,
                   chainStarted, histVars>>
    /\ UNCHANGED netVars
    /\ UNCHANGED <<meshVars, dmVars, delayVars>>

\* the steady clock advances
Tick ==
    /\ ~crashed /\ now < MaxTime
    /\ now' = now + 1
    /\ UNCHANGED <<currentState, running, currentTime, eventQueue,
                   totalEventsProcessed, simulationThread, stateMutex,
                   eventMutex, spc, peNow, curEvent, cpc, nextSeq, crashed,
                   chainStarted, histVars>>
    /\ UNCHANGED netVars
    /\ UNCHANGED <<meshVars, dmVars, delayVars>>

\* the scheduler thread's loop while the engine is RUNNING
SchedulerLoop ==
    \/ SchedLoop \/ SchedCheckState \/ SimulationStep
    \/ ProcessEventsBegin \/ ProcessEventsLock \/ ProcessEventsPop
    \/ ProcessEventsEnd \/ SchedSleep

\* the scheduler thread on application callbacks
SchedulerCore == SchedulerLoop \/ SchedPauseWake \/ RunUserCallback

\* the scheduler thread on the callbacks scheduleRepeatingEvent builds
ChainSteps == RunRepeatingCallback \/ RepeatingReschedule \/ RunTrampoline

Scheduler == SchedulerCore \/ ChainSteps

Control ==
    \E c \in Ctl : Start(c) \/ StopBegin(c) \/ StopJoin(c) \/ StopEnd(c)
                   \/ Pause(c) \/ Resume(c)

\* the delivery worker
Worker ==
    \/ WorkerLock \/ WorkerWaitPredicate \/ WorkerBlock \/ WorkerCheckRunning
    \/ WorkerDrainStats \/ WorkerTake \/ WorkerSpuriousWake
    \/ \E ok \in BOOLEAN : WorkerDeliver(ok)

\* sendMessage to a registered device, from any sender thread
Send ==
    \E s \in Senders :
        \/ \E r \in Draws : SendMessageBegin(s, "dev", r)
        \/ SendMessagePush(s) \/ SendMessageNotify(s) \/ SendMessageCount(s)

Schedule ==
    \/ \E d \in Delays, p \in Prios, cb \in Callbacks : ScheduleEvent(d, p, cb)
    \/ \E i \in Intervals, p \in Prios, cb \in Callbacks :
           ScheduleRepeatingEvent(i, p, cb)

\* the engine and its network manager, every application behaviour allowed
InitAny ==
    /\ InitEngine /\ InitNet /\ hasNM \in BOOLEAN
    /\ packetLossRate \in LossRates
    /\ InitDevices /\ InitConditions
    /\ InitMesh /\ maxHops = MaxHopCount
Next ==
    \/ Scheduler \/ Control \/ Schedule \/ Tick
    \/ RunSpawningCallback
    \/ \E d \in Delays, again \in CallbackDelays :
           ScheduleSpawningEvent(d, again)
    \/ \E c \in Ctl : StopNM(c) \/ StopNMJoin(c)
    \/ Worker \/ WorkerDeliverTerminates \/ Send
    \/ \E s \in Senders : SendMessageBegin(s, "ghost", 0)
    \/ Mutate
    \/ \E id \in MeshIds :
           FindOptimalPath(id) \/ GetHopCount(id) \/ CanReachGateway(id)
    \/ \E c \in Ctl : NMStart(c) \/ NMStopBegin(c) \/ NMStopJoin(c)
    \/ \E id \in DeviceIds : RegisterDevice(id) \/ UnregisterDevice(id)
    \/ \E source \in Sources, behave \in [DeviceIds -> Callbacks] :
           BroadcastMessage(source, behave)
    \/ \E packetLoss \in LossArgs, delayMin \in DelayArgs,
          delayMax \in DelayArgs :
           SetNetworkConditions(packetLoss, delayMin, delayMax)

Spec == InitAny /\ [][Next]_vars

\* ------------------------------------------------------------ environments
\* Each specification below runs the same engine under one application
\* behaviour (which threads call what, with which arguments).

\* one thread starts the engine; events with every delay and priority
NextOrder ==
    \/ SchedulerLoop \/ RunUserCallback
    \/ Start(1)
    \/ \E d \in Delays, p \in Prios : ScheduleEvent(d, p, "ok")
    \/ Tick
SpecOrder == Init /\ [][NextOrder]_vars

\* NumCtl threads call start, stop, pause and resume in any order
NextControl ==
    \/ SchedulerCore
    \/ Control
    \/ ScheduleEvent(0, 0, "ok")
SpecControl == Init /\ [][NextControl]_vars

\* one thread starts, pauses and resumes while events come due
NextPause ==
    \/ SchedulerCore
    \/ Start(1) \/ Pause(1) \/ Resume(1)
    \/ \E d \in Delays : ScheduleEvent(d, 0, "ok")
    \/ Tick
SpecPause == Init /\ [][NextPause]_vars

\* one repeating event, with the engine started, paused, resumed and stopped
NextRepeat ==
    \/ SchedulerLoop \/ SchedPauseWake \/ ChainSteps
    \/ Start(1) \/ Pause(1) \/ Resume(1)
    \/ StopBegin(1) \/ StopJoin(1) \/ StopEnd(1)
    \/ \E i \in Intervals, p \in Prios, cb \in {"ok", "throwStd"} :
           ScheduleRepeatingEvent(i, p, cb)
    \/ Tick
SpecRepeat == Init /\ [][NextRepeat]_vars

\* callbacks that return, throw a std::exception or throw something else
NextThrow ==
    \/ SchedulerLoop \/ RunUserCallback
    \/ Start(1)
    \/ \E d \in Delays, cb \in Callbacks : ScheduleEvent(d, 0, cb)
    \/ Tick
SpecThrow == Init /\ [][NextThrow]_vars

\* a network manager on its own: one thread starts and stops it while the
\* senders call sendMessage, under each packet loss rate
InitNetwork ==
    /\ InitEngine /\ InitNet /\ hasNM = FALSE
    /\ packetLossRate \in LossRates
    /\ InitDevices /\ InitConditions
    /\ InitMesh /\ maxHops = MaxHopCount
NextNetwork ==
    \/ Worker \/ Send
    \/ NMStart(1) \/ NMStopBegin(1) \/ NMStopJoin(1)
SpecNetwork == InitNetwork /\ [][NextNetwork]_vars

\* the steps the delivery worker takes on its own once it is runnable (a
\* spurious wake-up is allowed but never owed)
WorkerProgress ==
    \/ WorkerLock \/ WorkerWaitPredicate \/ WorkerBlock \/ WorkerCheckRunning
    \/ WorkerDrainStats \/ WorkerTake
    \/ \E ok \in BOOLEAN : WorkerDeliver(ok)

\* the steps that complete a sendMessage call already past the loss simulation
SendProgress ==
    \E s \in Senders :
        SendMessagePush(s) \/ SendMessageNotify(s) \/ SendMessageCount(s)

\* the same manager under fair scheduling: a runnable worker keeps running,
\* a sendMessage call in progress completes, and a join whose thread has
\* finished returns
SpecNetworkFair ==
    /\ InitNetwork /\ [][NextNetwork]_vars
    /\ WF_vars(WorkerProgress)
    /\ WF_vars(SendProgress)
    /\ WF_vars(NMStopJoin(1))

\* a manager that is started once and never stopped, with no packet loss and
\* a registry whose delivery always succeeds, under fair scheduling
InitDeliver ==
    /\ InitEngine /\ InitNet /\ hasNM = FALSE /\ packetLossRate = 0
    /\ InitDevices /\ InitConditions
    /\ InitMesh /\ maxHops = MaxHopCount
WorkerDelivering ==
    \/ WorkerLock \/ WorkerWaitPredicate \/ WorkerBlock \/ WorkerCheckRunning
    \/ WorkerTake \/ WorkerDeliver(TRUE)
NextDeliver ==
    \/ WorkerDelivering \/ WorkerSpuriousWake
    \/ Send
    \/ NMStart(1)
SpecDeliver ==
    /\ InitDeliver /\ [][NextDeliver]_vars
    /\ WF_vars(WorkerDelivering)
    /\ WF_vars(SendProgress)

\* a manager started once, with no packet loss, delivering to a registered
\* and to an unregistered destination; the registered device accepts the
\* message, fails with a std::exception, or throws something else
Destinations == Devices \cup {"ghost"}
InitDelivery ==
    /\ InitEngine /\ InitNet /\ hasNM = FALSE /\ packetLossRate = 0
    /\ InitDevices /\ InitConditions
    /\ InitMesh /\ maxHops = MaxHopCount
NextDelivery ==
    \/ WorkerLock \/ WorkerWaitPredicate \/ WorkerBlock \/ WorkerCheckRunning
    \/ WorkerTake \/ WorkerSpuriousWake
    \/ \E ok \in BOOLEAN : WorkerDeliver(ok)
    \/ WorkerDeliverTerminates
    \/ \E s \in Senders :
           \/ \E dst \in Destinations : SendMessageBegin(s, dst, 0)
           \/ SendMessagePush(s) \/ SendMessageNotify(s) \/ SendMessageCount(s)
    \/ NMStart(1)
SpecDelivery == InitDelivery /\ [][NextDelivery]_vars

\* an engine built with a network manager and no scheduled event: one thread
\* starts and stops the engine, which starts and stops the manager
InitLifecycle ==
    /\ InitEngine /\ InitNet /\ hasNM = TRUE /\ packetLossRate = 0
    /\ InitDevices /\ InitConditions
    /\ InitMesh /\ maxHops = MaxHopCount
NextLifecycle ==
    \/ SchedLoop \/ SchedCheckState \/ SimulationStep
    \/ ProcessEventsBegin \/ ProcessEventsLock \/ ProcessEventsEnd
    \/ SchedSleep
    \/ Start(1) \/ StopBegin(1) \/ StopJoin(1) \/ StopNM(1) \/ StopNMJoin(1)
    \/ Worker
    \/ SendMessageBegin(1, "dev", 0)
    \/ SendMessagePush(1) \/ SendMessageNotify(1) \/ SendMessageCount(1)
SpecLifecycle == InitLifecycle /\ [][NextLifecycle]_vars

\* a mesh network of any ceiling up to MaxHopCount, under every sequence of
\* topology calls between distinct devices and of hop-count lookups
InitMeshNetwork ==
    /\ InitEngine /\ InitNet /\ hasNM = FALSE /\ packetLossRate = 0
    /\ InitDevices /\ InitConditions
    /\ InitMesh /\ maxHops \in 1..MaxHopCount
NextMesh ==
    \/ \E id \in MeshIds, g \in BOOLEAN : AddDevice(id, g)
    \/ \E a \in MeshIds : \E b \in MeshIds \ {a} : AddNeighbor(a, b)
    \/ \E id \in MeshIds : RemoveDevice(id, {})
    \/ \E id \in MeshIds : SetGateway(id)
    \/ \E id \in MeshIds : GetHopCount(id) \/ CanReachGateway(id)
SpecMesh == InitMeshNetwork /\ [][NextMesh]_vars

\* a mesh network of ceiling MaxHopCount under every sequence of topology
\* calls, a device being made its own neighbor included
InitMeshLoops ==
    /\ InitEngine /\ InitNet /\ hasNM = FALSE /\ packetLossRate = 0
    /\ InitDevices /\ InitConditions
    /\ InitMesh /\ maxHops = MaxHopCount
SpecMeshLoops == InitMeshLoops /\ [][Mutate]_vars

\* the mesh of the test program, one gateway "G" and the other devices added
\* as plain nodes, under every sequence of addDevice, addNeighbor,
\* removeDevice and findOptimalPath calls
NextMeshPaths ==
    \/ AddDevice("G", TRUE)
    \/ \E id \in MeshIds \ {"G"} : AddDevice(id, FALSE)
    \/ \E a \in MeshIds, b \in MeshIds : AddNeighbor(a, b)
    \/ \E id \in MeshIds, later \in SUBSET MeshIds : RemoveDevice(id, later)
    \/ \E id \in MeshIds : FindOptimalPath(id)
SpecMeshPaths == InitMeshLoops /\ [][NextMeshPaths]_vars

\* a device manager that the application fills and empties while it
\* broadcasts through a network manager built on it
InitBroadcast ==
    /\ InitEngine /\ InitNet /\ hasNM = FALSE
    /\ packetLossRate = 0
    /\ devices = {} /\ broadcast = NoBroadcast
    /\ InitConditions
    /\ InitMesh /\ maxHops = MaxHopCount
NextBroadcast ==
    \/ \E id \in DeviceIds : RegisterDevice(id)
    \/ \E id \in DeviceIds : UnregisterDevice(id)
    \/ \E source \in Sources, behave \in [DeviceIds -> Callbacks] :
           BroadcastMessage(source, behave)
SpecBroadcast == InitBroadcast /\ [][NextBroadcast]_vars

\* a manager whose network conditions the application sets again and again,
\* with arguments in and out of range and not-a-number
InitSetConditions ==
    /\ InitEngine /\ InitNet /\ hasNM = FALSE
    /\ packetLossRate = 0
    /\ InitDevices /\ InitConditions
    /\ InitMesh /\ maxHops = MaxHopCount
NextSetConditions ==
    \E packetLoss \in LossArgs, delayMin \in DelayArgs, delayMax \in DelayArgs :
        SetNetworkConditions(packetLoss, delayMin, delayMax)
SpecSetConditions == InitSetConditions /\ [][NextSetConditions]_vars

\* an engine built with a network manager: one thread starts, pauses and
\* resumes it and schedules events that are due at once, while another sends
\* messages to a registered device
NextLocks ==
    \/ SchedulerCore
    \/ Start(1) \/ Pause(1) \/ Resume(1)
    \/ ScheduleEvent(0, 0, "ok")
    \/ WorkerDelivering \/ WorkerDeliver(FALSE) \/ WorkerSpuriousWake
    \/ SendMessageBegin(1, "dev", 0)
    \/ SendMessagePush(1) \/ SendMessageNotify(1) \/ SendMessageCount(1)
SpecLocks == InitLifecycle /\ [][NextLocks]_vars

\* the test program's use of the manager: the thread that starts and stops
\* the engine also starts and stops the network manager itself, in any order
NextStartStop ==
    \/ NextLifecycle
    \/ NMStart(1) \/ NMStopBegin(1) \/ NMStopJoin(1)
SpecStartStop == InitLifecycle /\ [][NextStartStop]_vars

\* an engine that is started and never paused or stopped, with events of
\* every delay and priority whose callbacks return, under fair scheduling of
\* the scheduler thread
SchedulerRunning == SchedulerLoop \/ RunUserCallback
NextRunning ==
    \/ SchedulerRunning
    \/ Start(1)
    \/ \E d \in Delays, p \in Prios : ScheduleEvent(d, p, "ok")
    \/ Tick
SpecRunning ==
    /\ Init /\ [][NextRunning]_vars
    /\ WF_vars(SchedulerRunning)

\* one application thread starts the engine, schedules a repeating event
\* while it runs, stops it and starts it again
NextCancel ==
    \/ SchedulerLoop \/ ChainSteps
    \/ Start(1) \/ StopBegin(1) \/ StopJoin(1) \/ StopEnd(1)
    \/ /\ cpc[1] = "idle" /\ currentState = "RUNNING"
       /\ \E i \in Intervals : ScheduleRepeatingEvent(i, 0, "ok")
    \/ Tick
SpecCancel == Init /\ [][NextCancel]_vars

\* one thread starts the engine and schedules callbacks that schedule
\* themselves again, with a negative, zero or positive delay
NextSpawn ==
    \/ SchedulerLoop \/ RunSpawningCallback
    \/ Start(1)
    \/ \E d \in Delays, again \in CallbackDelays :
           ScheduleSpawningEvent(d, again)
    \/ Tick
SpecSpawn == Init /\ [][NextSpawn]_vars

\* ------------------------------------------------------------------ claims

\* the step of processEvents that pops an event for execution
PopStep == spc = "pe_test" /\ spc' = "pe_cb"

\* C1: whenever the scheduler pops an event, no event left in the queue has
\* an earlier fire time, nor the same fire time with a strictly higher
\* priority (so of two due events with equal fire time the higher priority
\* one is executed first).
C1_PopOrder ==
    [][PopStep =>
         \A r \in eventQueue' :
             /\ ~(r.time < curEvent'.time)
             /\ ~(r.time = curEvent'.time /\ r.prio > curEvent'.prio)]_vars

\* an event was popped ahead of an older pending event of equal fire time
\* and lower priority
C1_Witness ==
    /\ spc = "pe_cb"
    /\ \E r \in eventQueue :
           /\ r.seq < curEvent.seq
           /\ r.time = curEvent.time
           /\ r.prio < curEvent.prio

States == {"STOPPED", "RUNNING", "PAUSED"}

\* C2: the engine state is always STOPPED, RUNNING or PAUSED and changes
\* only by start() STOPPED->RUNNING, pause() RUNNING->PAUSED, resume()
\* PAUSED->RUNNING and stop() RUNNING or PAUSED->STOPPED; start() when not
\* STOPPED, stop() when STOPPED, pause() when not RUNNING and resume() when
\* not PAUSED leave the state, the running flag and the scheduler thread
\* unchanged.
C2_StateMachine ==
    [][/\ currentState' \in States
       /\ currentState' # currentState =>
            \/ /\ currentState = "STOPPED" /\ currentState' = "RUNNING"
               /\ \E c \in Ctl : Start(c)
            \/ /\ currentState = "RUNNING" /\ currentState' = "PAUSED"
               /\ \E c \in Ctl : Pause(c)
            \/ /\ currentState = "PAUSED" /\ currentState' = "RUNNING"
               /\ \E c \in Ctl : Resume(c)
            \/ /\ currentState \in {"RUNNING", "PAUSED"}
               /\ currentState' = "STOPPED"
               /\ \E c \in Ctl : StopBegin(c)
       /\ \A c \in Ctl :
            (\/ Start(c) /\ currentState # "STOPPED"
             \/ StopBegin(c) /\ currentState = "STOPPED"
             \/ Pause(c) /\ currentState # "RUNNING"
             \/ Resume(c) /\ currentState # "PAUSED")
            => UNCHANGED <<currentState, running, simulationThread, spc>>
      ]_vars

\* the engine ran, was paused and resumed (an overdue event was recorded at
\* the resume), and was stopped again with its thread joined
C2_Witness ==
    /\ currentState = "STOPPED"
    /\ simulationThread = "none"
    /\ spc = "exited"
    /\ overdue # {}
    /\ stopReturned # {}

\* every event ever pushed is pending and not fired, or popped and about to
\* be run, or has been fired exactly once
EventsConserved ==
    \A i \in 1..nextSeq :
        LET pending == \E e \in eventQueue : e.seq = i
            inHand == spc = "pe_cb" /\ curEvent.seq = i
        IN  \/ pending /\ ~inHand /\ fireCount[i] = 0
            \/ ~pending /\ inHand /\ fireCount[i] = 0
            \/ ~pending /\ ~inHand /\ fireCount[i] = 1

\* C3: pause() and resume() neither remove nor duplicate pending events;
\* every event fires at most once and stays pending until it fires; and an
\* event that is due when resume() takes effect (its fire time passed while
\* PAUSED) has fired by the end of the first drain pass begun after resume().
C3_PauseResumeKeepsEvents ==
    [][/\ EventsConserved'
       /\ (currentState = "RUNNING" /\ currentState' = "PAUSED")
            => eventQueue' = eventQueue
       /\ (currentState = "PAUSED" /\ currentState' = "RUNNING")
            => eventQueue' = eventQueue
       /\ (spc = "pe_test" /\ spc' = "sleep" /\ passesSinceResume = 1)
            => \A e \in overdue : fireCount'[e.seq] = 1
      ]_vars

\* an event came due during the pause and has fired when the first drain
\* pass after resume() ends
C3_Witness ==
    /\ spc = "sleep"
    /\ passesSinceResume = 1
    /\ \E e \in overdue : e.time > pausedAt /\ fireCount[e.seq] = 1

\* a firing of an event of the repeating chain: its callback is invoked
ChainFiring ==
    /\ spc = "pe_cb"
    /\ curEvent.kind \in {"repeat", "tramp"}
    /\ fireCount'[curEvent.seq] = fireCount[curEvent.seq] + 1

\* C4: every firing of the repeating event invokes the user callback (and
\* then enqueues the next occurrence one interval later).
C4_EveryFiringInvokesCallback ==
    [][ChainFiring => cbInvoked' = cbInvoked + 1]_vars

\* C5: the event queue holds at most one pending event of the repeating
\* chain, whatever the firings, pauses and resumes.
C5_OnePendingOccurrence == Cardinality(Chain(eventQueue)) <= 1

\* the repeating callback ran and its successor is the one pending event
C5_Witness ==
    /\ cbInvoked >= 1
    /\ spc = "pe_relock"
    /\ curEvent.kind = "repeat"
    /\ Cardinality(Chain(eventQueue)) = 1

\* C6: once a call of stop() has returned, no event callback is executing
\* (until a later start()).
C6_NoCallbackAfterStopReturns ==
    stopReturned # {} => spc \notin {"pe_cb", "pe_resched"}

\* C7: an exception raised by an event callback is contained: the scheduler
\* thread goes on with its drain pass and the engine state is unchanged.
C7_ExceptionContained ==
    [][(spc = "pe_cb" /\ curEvent.cb # "ok" /\ spc' # spc)
         => /\ ~crashed'
            /\ spc' = "pe_relock"
            /\ currentState' = currentState]_vars

\* a step taken inside sendMessage by some sender
SendStep == sndPc' # sndPc \/ nextMsg' # nextMsg

\* C8: a sendMessage call either is dropped (it returns false in its first
\* step: dropped + 1, sent and the queue unchanged) or is accepted (its
\* message is appended at the tail of the queue, then sent + 1, dropped
\* unchanged, and it returns true); no step of sendMessage changes received
\* or errors.
C8_SendOutcomes ==
    [][SendStep =>
         /\ stats'.messagesReceived = stats.messagesReceived
         /\ stats'.errors = stats.errors
         /\ \/ \* dropped: the call returns false
               /\ sndPc' = sndPc /\ nextMsg' = nextMsg + 1
               /\ stats'.messagesDropped = stats.messagesDropped + 1
               /\ stats'.messagesSent = stats.messagesSent
               /\ messageQueue' = messageQueue
               /\ returnedTrue' = returnedTrue
            \/ \* accepted: the loss simulation passed
               /\ \E s \in Senders : sndPc[s] = "idle" /\ sndPc'[s] = "push"
               /\ stats' = stats /\ messageQueue' = messageQueue
            \/ \* accepted: the push
               /\ \E s \in Senders :
                      /\ sndPc[s] = "push" /\ sndPc'[s] = "notify"
                      /\ messageQueue' = Append(messageQueue, sndMsg[s])
               /\ stats' = stats
            \/ \* accepted: the notify
               /\ \E s \in Senders : sndPc[s] = "notify" /\ sndPc'[s] = "count"
               /\ stats' = stats /\ messageQueue' = messageQueue
            \/ \* accepted: the count, and the call returns true
               /\ \E s \in Senders :
                      /\ sndPc[s] = "count" /\ sndPc'[s] = "idle"
                      /\ returnedTrue' = returnedTrue \cup {sndMsg[s].id}
               /\ stats'.messagesSent = stats.messagesSent + 1
               /\ stats'.messagesDropped = stats.messagesDropped
               /\ messageQueue' = messageQueue]_vars

\* on a manager that was never started, one call was dropped and one was
\* accepted: its message is queued and counted as sent
C8_Witness ==
    /\ wpc = "none"
    /\ stats.messagesDropped = 1
    /\ stats.messagesSent = 1
    /\ Len(messageQueue) = 1
    /\ returnedTrue = Ids(messageQueue)

\* stop() of a running manager has returned and the manager was not started
\* again
NMStopped ==
    /\ ~nmRunning /\ processingThread = "none"
    /\ \A c \in Ctl : cpc[c] = "idle"

\* C9: the k >= 1 messages queued when stop() is called are never handed to
\* the registry; when stop() has returned each of them has been counted
\* exactly once, as dropped, and none is left in the queue.
C9_ResidualMessagesDropped ==
    /\ atStop \cap handed = {}
    /\ NMStopped =>
         \A i \in atStop : fate[i] = <<"dropped">> /\ i \notin Ids(messageQueue)

\* C10: when stop() of a running manager returns, the queue is empty and
\* every message for which sendMessage returned true has been counted
\* exactly once (as received, as an error, or as dropped at shutdown).
\* Stated for the returns of stop() at which no sendMessage call is in
\* progress, so that every queued message is one sendMessage has accepted.
C10_NoAcceptedMessageLost ==
    [][(/\ \E c \in Ctl : cpc[c] = "nm_join" /\ cpc'[c] = "idle"
        /\ \A s \in Senders : sndPc[s] = "idle")
         => /\ messageQueue' = <<>>
            /\ \A i \in returnedTrue' : Len(fate'[i]) = 1]_vars

\* C11: every stop() of a running manager eventually returns: once stop()
\* has cleared the flag and notified, the worker leaves its loop and the join
\* completes, whatever the worker was doing.
C11_StopReturns ==
    \A c \in Ctl : (cpc[c] = "nm_join") ~> (cpc[c] = "idle")

\* the sendMessage calls that have returned
CallsReturned ==
    nextMsg - Cardinality({s \in Senders : sndPc[s] # "idle"})

\* C12: with loss rate 0 and a registry that always succeeds, sent equals
\* the number of sendMessage calls that have returned, dropped and errors
\* stay 0, and once the manager runs the worker drains the queue: from some
\* point on received equals sent.
C12_AllSentAreReceived ==
    /\ [](/\ stats.messagesSent = CallsReturned
          /\ stats.messagesDropped = 0 /\ stats.errors = 0)
    /\ (nmRunning ~> [](/\ stats.messagesReceived = stats.messagesSent
                        /\ messageQueue = <<>>))

\* all MaxMsgs calls have returned and every message has been received
C12_Witness ==
    /\ nmRunning /\ CallsReturned = MaxMsgs
    /\ stats.messagesSent = MaxMsgs /\ stats.messagesReceived = MaxMsgs
    /\ messageQueue = <<>>

\* C13: with packet loss rate 1.0 every sendMessage call returns false in
\* its only step, adds exactly one to dropped, leaves sent and the queue
\* unchanged, and no message is ever taken or delivered by the worker.
C13_FullLossDropsEverything ==
    /\ [][(packetLossRate = 100 /\ SendStep) =>
            /\ sndPc' = sndPc /\ nextMsg' = nextMsg + 1
            /\ returnedTrue' = returnedTrue
            /\ stats'.messagesDropped = stats.messagesDropped + 1
            /\ stats'.messagesSent = stats.messagesSent
            /\ messageQueue' = messageQueue]_vars
    /\ [](packetLossRate = 100 =>
            /\ messageQueue = <<>> /\ wMsg = NoMsg /\ handed = {}
            /\ stats.messagesSent = 0 /\ stats.messagesReceived = 0
            /\ stats.errors = 0
            /\ stats.messagesDropped = nextMsg)

\* MaxMsgs calls were made on a running manager with loss rate 1.0
C13_Witness ==
    /\ packetLossRate = 100 /\ nmRunning
    /\ nextMsg = MaxMsgs /\ stats.messagesDropped = MaxMsgs

\* the step in which the worker's deliverMessage call ends
DeliverStep == wpc = "deliver" /\ (wpc' # "deliver" \/ crashed' # crashed)

\* C14: each deliverMessage call returns to the worker having added exactly
\* one to exactly one of received and errors: for a destination absent from
\* the registry errors + 1 and no delivery call; for a registered one a single
\* delivery call and then received + 1 or errors + 1; sent and dropped are
\* unchanged.
C14_DeliveryCountsOnce ==
    [][DeliverStep =>
         /\ ~crashed' /\ wpc' = "lock"
         /\ stats'.messagesSent = stats.messagesSent
         /\ stats'.messagesDropped = stats.messagesDropped
         /\ IF wMsg.dst \in devices
            THEN /\ wMsg.id \notin handed /\ handed' = handed \cup {wMsg.id}
                 /\ \/ /\ stats'.messagesReceived = stats.messagesReceived + 1
                       /\ stats'.errors = stats.errors
                    \/ /\ stats'.messagesReceived = stats.messagesReceived
                       /\ stats'.errors = stats.errors + 1
            ELSE /\ handed' = handed
                 /\ stats'.messagesReceived = stats.messagesReceived
                 /\ stats'.errors = stats.errors + 1]_vars

\* the nodes reached from src in at most k steps along neighbor lists
RECURSIVE Within(_, _)
Within(src, k) ==
    IF k = 0
    THEN {src} \cap DOMAIN nodes
    ELSE LET w == Within(src, k - 1)
         IN  w \cup {n \in DOMAIN nodes :
                       \E m \in w : Contains(nodes[m].neighbors, n)}

\* the length of a shortest route from src to dst, -1 when there is none
Distance(src, dst) ==
    LET size == Cardinality(DOMAIN nodes)
    IN  IF dst \in Within(src, size)
        THEN CHOOSE k \in 0..size :
                 /\ dst \in Within(src, k)
                 /\ k = 0 \/ dst \notin Within(src, k - 1)
        ELSE -1

\* the nodes whose gateway flag is set
Gateways == {n \in DOMAIN nodes : nodes[n].isGateway}

\* C15: in every state at most one node has isGateway set, and a node that
\* has it is the one gatewayId names.
C15_AtMostOneGateway ==
    /\ Cardinality(Gateways) <= 1
    /\ \A n \in Gateways : n = gatewayId

\* the hop count the current graph gives the node n
ExpectedHopCount(n) ==
    LET d == IF gatewayId = "" THEN -1 ELSE Distance(gatewayId, n)
    IN  IF d >= 0 /\ d < maxHops THEN d ELSE maxHops

\* C16: in every state (so after every topology mutation) each node's stored
\* hop count is 0 for the gateway, the BFS distance to the gateway when that
\* is below maxHops, and maxHops otherwise (no route, distance at or beyond
\* the ceiling, no gateway).
C16_HopCountsConsistent ==
    \A n \in DOMAIN nodes : nodes[n].hopCountToGateway = ExpectedHopCount(n)

\* a path along neighbor lists from src to the gateway
IsRoute(p, src) ==
    /\ Len(p) >= 1 /\ p[1] = src /\ p[Len(p)] = gatewayId
    /\ \A i \in 1..Len(p) : p[i] \in DOMAIN nodes
    /\ \A i \in 1..(Len(p) - 1) : Contains(nodes[p[i]].neighbors, p[i + 1])

\* C17: findOptimalPath(source) returns; when a gateway is configured and
\* the source has a route to it the result is a shortest route from the
\* source to the gateway, and otherwise (no gateway, unknown source, no
\* route) it is the empty sequence.
C17_OptimalPath ==
    lastOp.op = "findOptimalPath" =>
        LET src == lastOp.id
            d == IF gatewayId = "" THEN -1 ELSE Distance(src, gatewayId)
        IN  /\ ~lastOp.result.threw
            /\ IF d >= 0
               THEN /\ IsRoute(lastOp.result.path, src)
                    /\ Len(lastOp.result.path) = d + 1
               ELSE lastOp.result.path = <<>>

\* getNeighbors(a) contains b
Lists(a, b) == a \in DOMAIN nodes /\ Contains(nodes[a].neighbors, b)

\* C18: in every state adjacency is symmetric: b is in a's neighbor list
\* iff a is in b's.
C18_SymmetricAdjacency ==
    \A a \in MeshIds, b \in MeshIds : Lists(a, b) <=> Lists(b, a)

\* C19: a setGateway(X) call for an existing device X ends with X the only
\* node that has gateway status, hop count 0 for X, getGateway() == X, and
\* the former gateway, if another node, without gateway status.
C19_SetGatewayMakesSoleGateway ==
    [][\A x \in MeshIds :
          (x \in DOMAIN nodes /\ SetGateway(x)) =>
              /\ gatewayId' = x
              /\ {n \in DOMAIN nodes' : nodes'[n].isGateway} = {x}
              /\ nodes'[x].hopCountToGateway = 0
              /\ (gatewayId # x /\ gatewayId \in DOMAIN nodes')
                     => ~nodes'[gatewayId].isGateway]_vars

\* the id is absent from the topology, or is a device with no route to the
\* configured gateway
NoRouteToGateway(id) ==
    \/ id \notin DOMAIN nodes
    \/ gatewayId # "" /\ Distance(id, gatewayId) = -1

\* C20: for an id absent from the topology and for a device with no route to
\* the current gateway, getHopCount returns maxHops and canReachGateway
\* returns false.
C20_UnreachableReportsMaxHops ==
    /\ (lastOp.op = "getHopCount" /\ NoRouteToGateway(lastOp.id))
           => lastOp.result = maxHops
    /\ (lastOp.op = "canReachGateway" /\ NoRouteToGateway(lastOp.id))
           => lastOp.result = FALSE

\* C21: removeDevice(id) of an existing device removes id from the node
\* table, leaves no remaining node listing id, empties the gateway when id was
\* the gateway and keeps it otherwise, and changes no neighbor relation
\* between the remaining nodes.
C21_RemoveDeviceEffect ==
    [][\A id \in MeshIds, later \in SUBSET MeshIds :
          (id \in DOMAIN nodes /\ RemoveDevice(id, later)) =>
              /\ DOMAIN nodes' = DOMAIN nodes \ {id}
              /\ \A n \in DOMAIN nodes' : ~Contains(nodes'[n].neighbors, id)
              /\ gatewayId' = IF gatewayId = id THEN "" ELSE gatewayId
              /\ \A n \in DOMAIN nodes' \cap DOMAIN nodes :
                     nodes'[n].neighbors = Erase(nodes[n].neighbors, id)]_vars

\* C22: a rejected mutation (addDevice of an id already present, addNeighbor
\* with an unknown endpoint, removeDevice or setGateway of an unknown id)
\* reports failure and leaves the node table, the neighbor lists, the gateway
\* and the hop counts as they were. The rejection branches of the source run
\* a lookup, a diagnostic and a return, so no exceptional outcome exists.
C22_RejectedMutationChangesNothing ==
    [][\A a \in MeshIds, b \in MeshIds, g \in BOOLEAN :
          ( \/ a \in DOMAIN nodes /\ AddDevice(a, g)
            \/ (a \notin DOMAIN nodes \/ b \notin DOMAIN nodes)
                   /\ AddNeighbor(a, b)
            \/ a \notin DOMAIN nodes /\ RemoveDevice(a, {})
            \/ a \notin DOMAIN nodes /\ SetGateway(a) )
          => /\ lastOp' = Returned(FALSE)
             /\ nodes' = nodes
             /\ gatewayId' = gatewayId]_vars

\* a rejected mutation has just reported failure on a populated topology
C22_Witness ==
    /\ lastOp = Returned(FALSE)
    /\ DOMAIN nodes # {}
    /\ DOMAIN nodes # MeshIds

\* no neighbor list names the same id twice
NoDuplicateNeighbors ==
    \A n \in DOMAIN nodes :
        \A i \in 1..Len(nodes[n].neighbors), j \in 1..Len(nodes[n].neighbors) :
            nodes[n].neighbors[i] = nodes[n].neighbors[j] => i = j

\* C23: addNeighbor(a, b) is idempotent: once it has been accepted, repeating
\* it with the arguments in either order leaves every neighbor list and every
\* hop count as the first call left them; and no step leads to a state with
\* a neighbor list that names the same id twice (the topology starts empty).
C23_AddNeighborIdempotent ==
    [][/\ NoDuplicateNeighbors'
       /\ \A a \in MeshIds, b \in MeshIds :
             (a \in DOMAIN nodes /\ b \in DOMAIN nodes /\ AddNeighbor(a, b)) =>
                 /\ UpdateHopCounts(AddBidirectional(nodes', a, b),
                                    gatewayId', maxHops') = nodes'
                 /\ UpdateHopCounts(AddBidirectional(nodes', b, a),
                                    gatewayId', maxHops') = nodes']_vars

\* an accepted addNeighbor has linked two distinct devices, one of them with a
\* route to the gateway
C23_Witness ==
    /\ lastOp = Returned(TRUE)
    /\ \E a \in DOMAIN nodes : \E b \in DOMAIN nodes \ {a} :
           /\ Contains(nodes[a].neighbors, b)
           /\ Contains(nodes[b].neighbors, a)
           /\ gatewayId = a
           /\ nodes[b].hopCountToGateway = 1

\* the recipients of the last broadcast: every device registered when it was
\* made, but the declared source
Recipients ==
    broadcast.registered \ {broadcast.source}

\* C24: a broadcast calls receiveData exactly once on every registered device
\* other than the declared source, whatever any of them throws, and returns
\* to its caller without an exception.
C24_BroadcastReachesEveryDevice ==
    broadcast.outcome # "none" =>
        /\ broadcast.outcome = "returned"
        /\ \A d \in Recipients :
               Cardinality({i \in 1..Len(broadcast.invoked) :
                                broadcast.invoked[i] = d}) = 1
        /\ \A i \in 1..Len(broadcast.invoked) :
               broadcast.invoked[i] \in Recipients

\* C25: a broadcast raises the error count of the network statistics by one
\* for every recipient whose receiveData failed, and still reaches the other
\* recipients.
C25_BroadcastFailuresCounted ==
    [][\A source \in Sources, behave \in [DeviceIds -> Callbacks] :
          BroadcastMessage(source, behave) =>
              /\ stats'.errors = stats.errors + Cardinality(broadcast'.failed)
              /\ \A d \in devices \ {source} :
                     \E i \in 1..Len(broadcast'.invoked) :
                         broadcast'.invoked[i] = d]_vars

\* a <= b on doubles
Leq(a, b) ==
    a # NaN /\ b # NaN /\ a <= b

\* C29: after every setNetworkConditions call, whatever its arguments, the
\* stored loss rate is within [0, 1] (0 to 100 percent) and the stored delays
\* satisfy 0 <= networkDelayMin <= networkDelayMax; arguments already within
\* those bounds are stored as given.
C29_ConditionsClamped ==
    [][\A packetLoss \in LossArgs, delayMin \in DelayArgs,
          delayMax \in DelayArgs :
          SetNetworkConditions(packetLoss, delayMin, delayMax) =>
              /\ Leq(0, packetLossRate') /\ Leq(packetLossRate', 100)
              /\ Leq(0, networkDelayMin')
              /\ Leq(networkDelayMin', networkDelayMax')
              /\ ( Leq(0, packetLoss) /\ Leq(packetLoss, 100)
                   /\ Leq(0, delayMin) /\ Leq(delayMin, delayMax) )
                 => /\ packetLossRate' = packetLoss
                    /\ networkDelayMin' = delayMin
                    /\ networkDelayMax' = delayMax]_vars

\* conditions within the bounds have been stored
C29_Witness ==
    /\ packetLossRate = 50
    /\ networkDelayMin = 1
    /\ networkDelayMax = 3

\* C26: no worker thread holds a lock of its component while it runs
\* user-visible work: the scheduler thread holds neither eventMutex nor
\* stateMutex while a callback executes, and the delivery worker does not
\* hold queueMutex during the delay sleep and the delivery.
C26_NoLockHeldDuringUserWork ==
    /\ spc \in {"pe_cb", "pe_resched"} =>
           eventMutex # "sched" /\ stateMutex # "sched"
    /\ wpc = "deliver" => queueMutex # "worker"

\* a callback and a delivery are both about to run
C26_Witness ==
    /\ spc = "pe_cb"
    /\ wpc = "deliver"

workerVars == <<nmRunning, processingThread, wpc, wMsg, messageQueue, stats>>

\* C28: NetworkManager::start() on a running manager and stop() on a manager
\* that is not running change nothing, whether the application or the engine
\* makes the call; a worker thread is created only when no earlier worker is
\* left unjoined (so at most one exists), and a join is only ever made on a
\* worker that has not been joined yet.
C28_StartStopIdempotent ==
    [][/\ (nmRunning /\ (NMStart(1) \/ (currentState = "STOPPED" /\ Start(1))))
              => UNCHANGED workerVars
       /\ (~nmRunning /\ (NMStopBegin(1) \/ StopNM(1)))
              => UNCHANGED workerVars /\ cpc'[1] = "idle"
       /\ (processingThread # "live" /\ processingThread' = "live")
              => processingThread = "none" /\ wpc \in {"none", "exited"}
       /\ (NMStopJoin(1) \/ StopNMJoin(1))
              => processingThread = "finished"
       /\ ~crashed']_vars

\* the manager has been stopped and its worker joined after a delivery: the
\* state in which a further stop() finds the manager not running
C28_Witness ==
    /\ 1 \in stopReturned
    /\ stats.messagesReceived > 0
    /\ cpc[1] = "idle"
    /\ ~nmRunning
    /\ processingThread = "none"
    /\ wpc = "exited"
    /\ simulationThread = "none"

\* event i is in the queue and its fire time has passed
Due(i) ==
    \E e \in eventQueue : e.seq = i /\ e.time <= now

\* C30: while the engine is RUNNING and its scheduler thread keeps being
\* scheduled, every event that scheduleEvent placed in the queue and whose
\* fire time has passed is eventually popped and its callback invoked.
C30_DueEventsEventuallyFire ==
    \A i \in 1..MaxEvents :
        (currentState = "RUNNING" /\ Due(i)) ~> (fireCount[i] > 0)

\* every event has fired on a running engine, the last one scheduled with a
\* delay
C30_Witness ==
    /\ currentState = "RUNNING"
    /\ eventQueue = {}
    /\ \A i \in 1..MaxEvents : fireCount[i] = 1
    /\ now = MaxTime

\* the step in which the scheduler thread invokes the callback of the event
\* it popped
InvokeStep ==
    spc = "pe_cb" /\ fireCount' # fireCount

\* C31: an event is popped only when its fire time is not after the time
\* snapshot of the drain pass, its callback is never invoked before its fire
\* time, and the callback of an event pushed by one scheduleEvent call is
\* invoked at most once.
C31_NotEarlyNotTwice ==
    [][/\ PopStep => curEvent'.time <= peNow
       /\ InvokeStep =>
              /\ curEvent.time <= now
              /\ fireCount[curEvent.seq] = 0
              /\ fireCount'[curEvent.seq] = 1
              /\ \A e \in eventQueue' : e.seq # curEvent.seq]_vars

\* an event scheduled with a delay has fired, at its fire time, while an
\* event scheduled after it is still pending
C31_Witness ==
    /\ spc = "pe_relock"
    /\ fireCount[curEvent.seq] = 1
    /\ curEvent.time = now
    /\ now > 0
    /\ \E e \in eventQueue : e.seq > curEvent.seq /\ e.time > now

\* C32: stopping the engine cancels a repeating event scheduled before the
\* stop: when stop() returns no occurrence of it is pending, none is pending
\* when the engine is started again, and its callback is not invoked once
\* stop() has returned.
C32_StopCancelsRepeating ==
    [][/\ StopEnd(1) => Chain(eventQueue') = {}
       /\ (currentState = "STOPPED" /\ 1 \in stopReturned /\ Start(1))
              => Chain(eventQueue) = {}
       /\ ChainFiring => ~(currentState = "STOPPED" /\ 1 \in stopReturned)
      ]_vars


\* the queue q2 holds what is left of q in the same order, followed by
\* messages that were not in q
KeepsOrder(q, q2) ==
    \E k \in 0..Len(q) :
        /\ Len(q2) >= Len(q) - k
        /\ SubSeq(q2, 1, Len(q) - k) = SubSeq(q, k + 1, Len(q))
        /\ \A i \in (Len(q) - k + 1)..Len(q2) : q2[i].id \notin Ids(q)

\* C33: messages are handed to the registry in the order they were enqueued.
\* The order of enqueueing is the order of messageQueue: no step reorders
\* the queue, and a message is only ever added behind those already queued;
\* the worker takes a message only when it holds none, and then it takes the
\* front one, which no queued message precedes; while it holds a message
\* nothing leaves the queue; and the message handed to the registry is the
\* one the worker holds, which it then lets go of.
C33_HandedInQueueOrder ==
    [][/\ KeepsOrder(messageQueue, messageQueue')
       /\ wMsg' # wMsg /\ wMsg' # NoMsg =>
              /\ wMsg = NoMsg
              /\ messageQueue # <<>>
              /\ wMsg' = Head(messageQueue)
              /\ messageQueue' = Tail(messageQueue)
       /\ wMsg # NoMsg =>
              /\ Len(messageQueue') >= Len(messageQueue)
              /\ SubSeq(messageQueue', 1, Len(messageQueue)) = messageQueue
       /\ handed' # handed =>
              /\ handed' = handed \cup {wMsg.id}
              /\ wMsg.id \notin handed
              /\ wMsg' = NoMsg]_vars

\* the worker holds a message that was numbered after the one queued right
\* behind it (two senders pushed in the other order than they began), and an
\* earlier message has already been handed over
C33_Witness ==
    /\ wpc = "deliver" /\ messageQueue # <<>>
    /\ wMsg.id > Head(messageQueue).id
    /\ wMsg.dst \in devices
    /\ handed # {}


\* how many times id occurs in the log
Times(log, id) == Cardinality({i \in 1..Len(log) : log[i] = id})

\* C34: updateHopCounts terminates on every topology the calls can build,
\* cycles, self-neighbors and neighbors that are no longer in the table
\* included, under every ceiling from 0 to MaxCeiling: its queue runs empty
\* within HopFuel turns of the loop and no node is pushed more than once.
C34_UpdateHopCountsTerminates ==
    \A mh \in 0..MaxCeiling :
        LET r == HopRunFrom(nodes, gatewayId, mh, HopFuel)
        IN  /\ r.emptied
            /\ \A id \in MeshIds : Times(r.pushes, id) <= 1

\* the gateway is its own neighbor and lies on a cycle through the two
\* other devices, the hop counts are those of a completed update, and the
\* update pushes all three devices
C34_Witness ==
    /\ gatewayId = "G" /\ DOMAIN nodes = MeshIds
    /\ \E i \in 1..Len(nodes["G"].neighbors) : nodes["G"].neighbors[i] = "G"
    /\ \E i \in 1..Len(nodes["A"].neighbors) : nodes["A"].neighbors[i] = "B"
    /\ \E i \in 1..Len(nodes["A"].neighbors) : nodes["A"].neighbors[i] = "G"
    /\ \E i \in 1..Len(nodes["B"].neighbors) : nodes["B"].neighbors[i] = "G"
    /\ nodes["A"].hopCountToGateway = 1 /\ nodes["B"].hopCountToGateway = 1
    /\ nodes = UpdateHopCounts(nodes, gatewayId, maxHops)
    /\ Len(HopRunFrom(nodes, gatewayId, maxHops, HopFuel).pushes) = 3


\* C35: the scheduler thread invokes no event callback while the engine
\* state is PAUSED, that is between the return of a pause() that found the
\* engine RUNNING and the next resume() or stop().
C35_NoCallbackWhilePaused ==
    [][InvokeStep => currentState # "PAUSED"]_vars


\* C36: the scheduler thread never sleeps with the state lock held, so that
\* a pause(), resume(), stop() or getState() called while the engine is
\* PAUSED finds the lock free whenever the scheduler thread is asleep.
C36_NoSleepUnderStateLock ==
    spc \in {"pauseSleep", "sleep"} => stateMutex # "sched"


\* C37: a start() that takes effect (it finds the engine STOPPED and goes on
\* to construct the scheduler thread and assign it to the handle) finds the
\* handle empty: the previous scheduler thread, if there was one, has been
\* joined by stop().
C37_StartFindsThreadJoined ==
    [][currentState = "STOPPED" /\ currentState' = "RUNNING"
           => simulationThread = "none"]_vars


\* findOptimalPath(s) on the current table
OptimalPath(s) ==
    IF gatewayId = ""
    THEN [threw |-> FALSE, path |-> <<>>]
    ELSE BfsShortestPath(nodes, s, gatewayId)

\* C38: for every device s, canReachGateway(s) is true exactly when
\* findOptimalPath(s) returns a non-empty path, and that path then has
\* getHopCount(s) + 1 elements.
C38_ReachableIffPath ==
    \A s \in MeshIds :
        /\ ~OptimalPath(s).threw
        /\ HopCountOf(s) < maxHops <=> OptimalPath(s).path # <<>>
        /\ HopCountOf(s) < maxHops =>
               Len(OptimalPath(s).path) = HopCountOf(s) + 1


\* C39: without broadcasts and resetStats, at every moment the messages
\* counted as received or as errors are no more than those counted as sent.
C39_CountedSentFirst ==
    stats.messagesReceived + stats.errors <= stats.messagesSent


\* C40: a drain pass pops no event that a callback scheduled during that
\* same pass, whatever the delay (such an event waits for the scheduler's
\* next wake), so that a pass invokes no more callbacks than there were
\* events queued when it began and ends when they have returned.
C40_SpawnedWaitsForNextPass ==
    [][PopStep => curEvent'.seq \notin spawnedInPass]_vars

====
